---- MODULE Spec2Model ----
(***************************************************************************)
(* Frameless-window chrome engine.                                         *)
(*                                                                         *)
(*   - WinNativeEventFilter (src/winnativeeventfilter.cpp): the registry   *)
(*     m_framelessWindows, the per-window WINDOW record kept in the        *)
(*     GWLP_USERDATA slot, the native message filter and the hit test.     *)
(*   - FramelessHelperQt (src/src/core/framelesshelper_qt.cpp): the        *)
(*     g_qtHelper table of the toolkit-event path.                         *)
(*   - FramelessWindowsManagerPrivate / FramelessManagerPrivate            *)
(*     (src/src/core/framelesswindowsmanager.cpp, framelessmanager.cpp):   *)
(*     the window-id lists and the add / remove entry points.              *)
(*                                                                         *)
(* The three translation units keep disjoint state; `component` records    *)
(* which of them a behaviour exercises.                                    *)
(***************************************************************************)
EXTENDS Integers, Sequences, FiniteSets, TLC

VARIABLES
    component,            \* "filter" | "hittest" | "manager" | "dpr" | "nccalcsize" | "threads" | "notify" | ...
    m_framelessWindows,   \* QVector<HWND> m_framelessWindows
    instance,             \* TRUE iff the native event filter is installed
    userData,             \* HWND -> the GWLP_USERDATA slot (NullPtr or a WINDOW)
    style,                \* HWND -> window style (GWL_STYLE / GWL_EXSTYLE)
    lastOp,               \* the operation that produced this state
    trace,                \* the effects of that operation, in order
    platform,             \* what DwmIsCompositionEnabled / IsThemeActive report
    windowIds,            \* g_helper()->windowIds of FramelessManagerPrivate
    wmWindowIds,          \* g_helper()->windowIds of FramelessWindowsManagerPrivate
    qtData,               \* g_qtHelper()->data: WId -> NullPtr or a QtHelperData
    winData,              \* the ids FramelessHelperWin manages
    hooks,                \* the ids with a system-menu hook installed
    framelessHint,        \* the windows with Qt::FramelessWindowHint set
    pureQt,               \* usePureQtImplementation()
    managerPrivate,       \* the theme fields of FramelessManagerPrivate
    threads,              \* thread -> the call it is in and its position there
    mutexes,              \* the holder of g_helper()->mutex and g_qtHelper()->mutex
    htIn,                 \* inputs of one query on drawn inputs (WM_NCHITTEST, ...)
    htOut                 \* its result

filterVars == <<m_framelessWindows, instance, userData, style, lastOp, trace, platform>>
managerVars == <<windowIds, wmWindowIds, qtData, winData, hooks, framelessHint, pureQt, managerPrivate, threads, mutexes>>
hitTestVars == <<htIn, htOut>>
vars == <<component, m_framelessWindows, instance, userData, style, lastOp, trace, platform, windowIds, wmWindowIds, qtData, winData, hooks, framelessHint, pureQt, managerPrivate, threads, mutexes, htIn, htOut>>

----------------------------------------------------------------------------
(* Bounds of the model                                                     *)

\* pointer coordinates range over -1 .. MaxCoord
MaxCoord == 7
MaxScale == 3

----------------------------------------------------------------------------
(* Values                                                                  *)

USER_DEFAULT_SCREEN_DPI == 96

NULL == 0
HWNDs == {1, 2}
Threads == {1, 2}
\* QGuiApplication::topLevelWindows(): window 1 is a top-level QWindow,
\* window 2 is a native child
TopLevelWindows == {1}

NullPtr == [null |-> TRUE]

Rect(x, y, w, h) == [x |-> x, y |-> y, w |-> w, h |-> h]
Size(w, h) == [w |-> w, h |-> h]

\* WINDOWDATA as default-constructed
DefaultWindowData ==
    [blurEnabled |-> FALSE, borderWidth |-> 0, borderHeight |-> 0,
     titlebarHeight |-> 0, minimumSize |-> Size(0, 0),
     ignoreAreas |-> <<>>, draggableAreas |-> <<>>]

\* WINDOW as default-constructed by `new WINDOW`, then hWnd set
NewWindowRecord(handle, wd) ==
    [null |-> FALSE, hWnd |-> handle, inited |-> FALSE,
     dwmCompositionEnabled |-> FALSE, themeEnabled |-> FALSE,
     windowData |-> wd]

----------------------------------------------------------------------------
(* Arithmetic of the C++ conversions                                       *)

\* double -> int conversion of n/d: truncation toward zero
TruncDiv(n, d) == IF n >= 0 THEN n \div d ELSE -((-n) \div d)

\* qFloor / qCeil / qRound of n/d for n >= 0
qFloor(n, d) == n \div d
qCeil(n, d) == (n + d - 1) \div d
qRound(n, d) == (2 * n + d) \div (2 * d)

RoundingPolicies == {"PassThrough", "Floor", "Ceil", "Round"}

\* getDprForWindow: the scale factor as a numerator over
\* USER_DEFAULT_SCREEN_DPI (dpr = result / 96).  The window DPIs of the model
\* are multiples of 24, whose quotients by 96 are exact in binary floating
\* point.
getDprForWindow(handle, dpi, policy) ==
    LET D == USER_DEFAULT_SCREEN_DPI
        raw == IF handle # NULL THEN dpi ELSE D
    IN CASE policy = "PassThrough" -> raw
         [] policy = "Floor" -> D * qFloor(raw, D)
         [] policy = "Ceil" -> D * qCeil(raw, D)
         [] OTHER -> D * qRound(raw, D)

\* getDpiForWindow with a DPI query resolved: the DPI of the window, the
\* DPI of the process for a null handle
getDpiForWindow(handle, winDpi, sysDpi) == IF handle = NULL THEN sysDpi ELSE winDpi

\* int * qreal, converted back to int
ScaleInt(v, dpr96) == TruncDiv(v * dpr96, USER_DEFAULT_SCREEN_DPI)

\* GetSystemMetrics at 96 DPI (values of the platform)
SystemMetricBase ==
    [SM_CXFRAME |-> 4, SM_CYFRAME |-> 4, SM_CXPADDEDBORDER |-> 4, SM_CYCAPTION |-> 23]

\* GetSystemMetricsForDpi of the platform: the 96-DPI metric scaled to dpi
GetSystemMetricsForDpi(index, dpi) ==
    (2 * SystemMetricBase[index] * dpi + USER_DEFAULT_SCREEN_DPI) \div (2 * USER_DEFAULT_SCREEN_DPI)

\* the half-step rounding of the DPI in getSystemMetricsForWindow
RoundedMetricDpi(dpi) ==
    LET D == USER_DEFAULT_SCREEN_DPI
    IN CASE 2 * dpi < 3 * D -> D
         [] 2 * dpi = 3 * D -> dpi
         [] 2 * dpi < 5 * D -> 2 * D
         [] 2 * dpi = 5 * D -> dpi
         [] 2 * dpi < 7 * D -> 3 * D
         [] 2 * dpi = 7 * D -> dpi
         [] 2 * dpi < 9 * D -> 4 * D
         [] OTHER -> dpi

\* the dpi that getSystemMetricsForWindow passes to m_GetSystemMetricsForDpi
MetricQueryDpi(dpi, policy) ==
    LET shouldRound == policy # "PassThrough"
    IN IF shouldRound THEN RoundedMetricDpi(dpi) ELSE dpi

\* env: [dpi, policy, hasMetricsForDpi]
getSystemMetricsForWindow(handle, index, env) ==
    IF env.hasMetricsForDpi
    THEN GetSystemMetricsForDpi(index, MetricQueryDpi(env.dpi, env.policy))
    ELSE ScaleInt(SystemMetricBase[index], getDprForWindow(handle, env.dpi, env.policy))

\* mutant: the override is returned as configured, not scaled
borderWidth_Unscaled(handle, wd, env) ==
    IF handle # NULL /\ wd.borderWidth > 0
    THEN wd.borderWidth
    ELSE getSystemMetricsForWindow(handle, "SM_CXFRAME", env)
         + getSystemMetricsForWindow(handle, "SM_CXPADDEDBORDER", env)

borderWidth(handle, wd, env) ==
    IF handle # NULL /\ wd.borderWidth > 0
    THEN ScaleInt(wd.borderWidth, getDprForWindow(handle, env.dpi, env.policy))
    ELSE getSystemMetricsForWindow(handle, "SM_CXFRAME", env)
         + getSystemMetricsForWindow(handle, "SM_CXPADDEDBORDER", env)

borderHeight(handle, wd, env) ==
    IF handle # NULL /\ wd.borderHeight > 0
    THEN ScaleInt(wd.borderHeight, getDprForWindow(handle, env.dpi, env.policy))
    ELSE getSystemMetricsForWindow(handle, "SM_CYFRAME", env)
         + getSystemMetricsForWindow(handle, "SM_CXPADDEDBORDER", env)

titlebarHeight(handle, wd, env) ==
    IF handle # NULL /\ wd.titlebarHeight > 0
    THEN ScaleInt(wd.titlebarHeight, getDprForWindow(handle, env.dpi, env.policy))
    ELSE borderHeight(handle, wd, env)
         + getSystemMetricsForWindow(handle, "SM_CYCAPTION", env)

----------------------------------------------------------------------------
(* Hit test (WM_NCHITTEST)                                                 *)

\* QRect::isValid: left <= right and top <= bottom
RectIsValid(r) == r.w >= 1 /\ r.h >= 1

\* QRect(x, y, w, h).contains(px, py, proper)
RectContains(r, px, py, proper) ==
    LET x1 == r.x
        x2 == r.x + r.w - 1
        y1 == r.y
        y2 == r.y + r.h - 1
        l == IF x2 < x1 - 1 THEN x2 ELSE x1
        rr == IF x2 < x1 - 1 THEN x1 ELSE x2
        t == IF y2 < y1 - 1 THEN y2 ELSE y1
        b == IF y2 < y1 - 1 THEN y1 ELSE y2
    IN IF proper
       THEN ~(px <= l \/ px >= rr) /\ ~(py <= t \/ py >= b)
       ELSE ~(px < l \/ px > rr) /\ ~(py < t \/ py > b)

\* QRect(area.x() * dpr, area.y() * dpr, area.width() * dpr, area.height() * dpr)
ScaledRect(area, dpr96) ==
    Rect(ScaleInt(area.x, dpr96), ScaleInt(area.y, dpr96),
         ScaleInt(area.w, dpr96), ScaleInt(area.h, dpr96))

\* mutant: the area is tested as configured, without the DPI scale
AreaContains_Unscaled(area, x, y, dpr96) == RectContains(area, x, y, TRUE)

\* the containment test one area contributes in isInSpecificAreas
AreaContains(area, x, y, dpr96) == RectContains(ScaledRect(area, dpr96), x, y, TRUE)

isInSpecificAreas(x, y, areas, dpr96) ==
    \E i \in 1..Len(areas) :
        /\ RectIsValid(areas[i])
        /\ AreaContains(areas[i], x, y, dpr96)

\* mutant: the client rectangle taken with its edges
isInsideWindow_Inclusive(x, y, ww, wh) == (x >= 0) /\ (x <= ww) /\ (y >= 0) /\ (y <= wh)

isInsideWindow(x, y, ww, wh) == (x > 0) /\ (x < ww) /\ (y > 0) /\ (y < wh)

\* mutant: the ignore areas are not consulted
isTitlebar_NoIgnoreAreas(in) ==
    LET dpr == getDprForWindow(in.hwnd, in.env.dpi, in.env.policy)
        tbh == titlebarHeight(in.hwnd, in.wd, in.env)
    IN /\ isInsideWindow(in.x, in.y, in.ww, in.wh)
       /\ in.y < tbh
       /\ (IF Len(in.wd.draggableAreas) = 0
           THEN TRUE
           ELSE isInSpecificAreas(in.x, in.y, in.wd.draggableAreas, dpr))

isTitlebar(in) ==
    LET dpr == getDprForWindow(in.hwnd, in.env.dpi, in.env.policy)
        tbh == titlebarHeight(in.hwnd, in.wd, in.env)
    IN /\ isInsideWindow(in.x, in.y, in.ww, in.wh)
       /\ in.y < tbh
       /\ ~isInSpecificAreas(in.x, in.y, in.wd.ignoreAreas, dpr)
       /\ (IF Len(in.wd.draggableAreas) = 0
           THEN TRUE
           ELSE isInSpecificAreas(in.x, in.y, in.wd.draggableAreas, dpr))

\* mutant: a maximized window has no title bar
MaximizedResult_NoCaption(in) == "HTCLIENT"

\* the result when IsMaximized(hwnd)
MaximizedResult(in) == IF isTitlebar(in) THEN "HTCAPTION" ELSE "HTCLIENT"

\* mutant: the title bar is tested before the edges
NormalResult_CaptionFirst(in) ==
    LET bw == borderWidth(in.hwnd, in.wd, in.env)
        bh == borderHeight(in.hwnd, in.wd, in.env)
        inside == isInsideWindow(in.x, in.y, in.ww, in.wh)
        isTop == inside /\ (in.y < bh)
        isBottom == inside /\ (in.y > (in.wh - bh))
        isLeft == inside /\ (in.x < bw)
        isRight == inside /\ (in.x > (in.ww - bw))
    IN CASE isTitlebar(in) -> "HTCAPTION"
         [] isTop /\ isLeft -> "HTTOPLEFT"
         [] isTop /\ isRight -> "HTTOPRIGHT"
         [] isTop -> "HTTOP"
         [] isBottom /\ isLeft -> "HTBOTTOMLEFT"
         [] isBottom /\ isRight -> "HTBOTTOMRIGHT"
         [] isBottom -> "HTBOTTOM"
         [] isLeft -> "HTLEFT"
         [] isRight -> "HTRIGHT"
         [] OTHER -> "HTCLIENT"

\* mutant: the single edges are tested before the corners
NormalResult_EdgesFirst(in) ==
    LET bw == borderWidth(in.hwnd, in.wd, in.env)
        bh == borderHeight(in.hwnd, in.wd, in.env)
        inside == isInsideWindow(in.x, in.y, in.ww, in.wh)
        isTop == inside /\ (in.y < bh)
        isBottom == inside /\ (in.y > (in.wh - bh))
        isLeft == inside /\ (in.x < bw)
        isRight == inside /\ (in.x > (in.ww - bw))
    IN CASE isTop -> "HTTOP"
         [] isBottom -> "HTBOTTOM"
         [] isLeft -> "HTLEFT"
         [] isRight -> "HTRIGHT"
         [] isTitlebar(in) -> "HTCAPTION"
         [] OTHER -> "HTCLIENT"

\* the result otherwise
NormalResult(in) ==
    LET bw == borderWidth(in.hwnd, in.wd, in.env)
        bh == borderHeight(in.hwnd, in.wd, in.env)
        inside == isInsideWindow(in.x, in.y, in.ww, in.wh)
        isTop == inside /\ (in.y < bh)
        isBottom == inside /\ (in.y > (in.wh - bh))
        isLeft == inside /\ (in.x < bw)
        isRight == inside /\ (in.x > (in.ww - bw))
    IN CASE isTop /\ isLeft -> "HTTOPLEFT"
         [] isTop /\ isRight -> "HTTOPRIGHT"
         [] isTop -> "HTTOP"
         [] isBottom /\ isLeft -> "HTBOTTOMLEFT"
         [] isBottom /\ isRight -> "HTBOTTOMRIGHT"
         [] isBottom -> "HTBOTTOM"
         [] isLeft -> "HTLEFT"
         [] isRight -> "HTRIGHT"
         [] isTitlebar(in) -> "HTCAPTION"
         [] OTHER -> "HTCLIENT"

\* mutant: the maximized state is not consulted
getHTResult_IgnoresMaximized(in) == NormalResult(in)

\* in: [hwnd, ww, wh, x, y, wd, env, maximized]
getHTResult(in) == IF in.maximized THEN MaximizedResult(in) ELSE NormalResult(in)

EdgeCodes ==
    {"HTTOPLEFT", "HTTOPRIGHT", "HTTOP", "HTBOTTOMLEFT", "HTBOTTOMRIGHT",
     "HTBOTTOM", "HTLEFT", "HTRIGHT"}

----------------------------------------------------------------------------
(* WinNativeEventFilter: registry, user data, message filter               *)

\* the settings the callers of the model pass (WINDOWDATA *data)
WindowData1 ==
    [blurEnabled |-> TRUE, borderWidth |-> 8, borderHeight |-> 8,
     titlebarHeight |-> 32, minimumSize |-> Size(200, 100),
     ignoreAreas |-> <<Rect(350, 0, 100, 32)>>, draggableAreas |-> <<>>]
WindowData2 ==
    [blurEnabled |-> FALSE, borderWidth |-> 0, borderHeight |-> 0,
     titlebarHeight |-> 0, minimumSize |-> Size(0, 0),
     ignoreAreas |-> <<>>, draggableAreas |-> <<Rect(0, 0, 300, 32)>>]
DataChoices == {WindowData1, WindowData2}

\* the vectors the callers of the model pass to setFramelessWindows
ListChoices == {<<>>, <<2, 1>>, <<1, 1>>}

Messages ==
    {"WM_NCCREATE", "WM_NCCALCSIZE", "WM_DWMCOMPOSITIONCHANGED",
     "WM_NCUAHDRAWCAPTION", "WM_NCUAHDRAWFRAME", "WM_NCPAINT", "WM_NCACTIVATE",
     "WM_NCHITTEST", "WM_SETICON", "WM_SETTEXT", "WM_THEMECHANGED",
     "WM_WINDOWPOSCHANGED", "WM_DPICHANGED", "WM_SIZE"}

\* QVector<HWND>::contains / removeAll
Contains(list, w) == \E i \in 1..Len(list) : list[i] = w
IsNotWindow(w, e) == e # w
RemoveAll(list, w) == SelectSeq(list, LAMBDA e : IsNotWindow(w, e))
ListSet(list) == {list[i] : i \in 1..Len(list)}

\* S: the part of the state message handling reads and writes,
\*    [ud, style, trace]
\* G: what it only reads, [list, installed, dwm, theme]
Event(kind, h, m, handled) == [ev |-> kind, hwnd |-> h, msg |-> m, handled |-> handled]
Log(S, kind, h, m, handled) == [S EXCEPT !.trace = Append(@, Event(kind, h, m, handled))]

createUserData(S, handle, data) ==
    IF handle = NULL THEN S
    ELSE IF S.ud[handle] # NullPtr
         THEN IF data # NullPtr
              THEN [S EXCEPT !.ud[handle].windowData = data]
              ELSE S
         ELSE [S EXCEPT !.ud[handle] =
                  NewWindowRecord(handle, IF data # NullPtr THEN data ELSE DefaultWindowData)]

\* mutant: with an empty list every window passes, top-level or not
PassesGate_EmptyMeansAll(list, hwnd) ==
    IF Len(list) = 0 THEN TRUE ELSE Contains(list, hwnd)

\* the gate of nativeEventFilter: which windows' messages are handled
PassesGate(list, hwnd) ==
    IF Len(list) = 0 THEN hwnd \in TopLevelWindows ELSE Contains(list, hwnd)

\* mutant: the composition flag is re-probed along with the theme flag
handleThemeChanged_BothFlags(S, G, h) ==
    [S EXCEPT !.ud[h].themeEnabled = G.theme, !.ud[h].dwmCompositionEnabled = G.dwm]

handleThemeChanged(S, G, h) == [S EXCEPT !.ud[h].themeEnabled = G.theme]

handleBlurForWindow(S, G, h) ==
    IF ~(S.ud[h].dwmCompositionEnabled /\ S.ud[h].windowData.blurEnabled)
    THEN S
    ELSE Log(S, "blur", S.ud[h].hWnd, "", FALSE)

\* DefWindowProcW for WM_NCACTIVATE: the border is repainted to show the new
\* activation state, unless lParam (normally a HRGN) is -1
DefWindowProcNcActivate(S, h, lParam) ==
    LET S1 == Log(S, "default", h, "WM_NCACTIVATE", FALSE)
    IN IF lParam = -1 THEN S1 ELSE Log(S1, "ncrepaint", h, "WM_NCACTIVATE", FALSE)

\* DefWindowProcW with the arguments the system sent; for WM_NCCALCSIZE it
\* lays out the default frame
DefWindowProc(S, h, m) ==
    IF m = "WM_NCACTIVATE" THEN DefWindowProcNcActivate(S, h, 0)
    ELSE Log(S, "default", h, m, FALSE)

\* the WS_VISIBLE bit of a window style
SetVisible(s) ==
    CASE s = "default" -> "default+visible"
      [] s = "frameless" -> "frameless+visible"
      [] OTHER -> s
ClearVisible(s) ==
    CASE s = "default+visible" -> "default"
      [] s = "frameless+visible" -> "frameless"
      [] OTHER -> s

\* mutant: the style saved before default handling is not written back
SetIconOrText_NoRestore(S, h, m) ==
    LET oldStyle == S.style[h]
        S1 == Log([S EXCEPT !.style[h] = ClearVisible(oldStyle)], "hide", h, m, FALSE)
    IN Log(DefWindowProc(S1, h, m), "show", h, m, FALSE)

\* case WM_SETICON / WM_SETTEXT with composition and theming both disabled
SetIconOrText(S, h, m) ==
    LET oldStyle == S.style[h]
        S1 == Log([S EXCEPT !.style[h] = ClearVisible(oldStyle)], "hide", h, m, FALSE)
        S2 == DefWindowProc(S1, h, m)
    IN Log([S2 EXCEPT !.style[h] = oldStyle], "show", h, m, FALSE)

\* mutant: WM_NCACTIVATE is forwarded with a null update region
NcActivate_OwnRegion(S, h) == DefWindowProcNcActivate(S, h, 0)

\* case WM_NCACTIVATE: DefWindowProcW(hwnd, message, wParam, -1)
NcActivate(S, h) == DefWindowProcNcActivate(S, h, -1)

RECURSIVE nativeEventFilter(_, _, _, _)
RECURSIVE WndProc(_, _, _, _)
RECURSIVE updateWindow(_, _, _)
RECURSIVE handleDwmCompositionChanged(_, _, _)
RECURSIVE init(_, _, _)
RECURSIVE HandleMessage(_, _, _, _)

\* the window procedure of a Qt window: the installed filter first, default
\* handling when the filter reports not-handled
WndProc(S, G, h, m) ==
    IF G.installed
    THEN LET r == nativeEventFilter(S, G, h, m)
         IN IF r.handled THEN r.S ELSE DefWindowProc(r.S, h, m)
    ELSE DefWindowProc(S, h, m)

\* SetWindowPos(SWP_FRAMECHANGED ...), SendMessageW(WM_SIZE), UpdateWindow:
\* the messages are delivered synchronously
updateWindow(S, G, handle) ==
    IF handle = NULL THEN S
    ELSE LET S0 == Log(S, "refresh", handle, "", FALSE)
             S1 == WndProc(S0, G, handle, "WM_NCCALCSIZE")
             S2 == WndProc(S1, G, handle, "WM_WINDOWPOSCHANGED")
         IN WndProc(S2, G, handle, "WM_SIZE")

\* mutant: the frame-changed refresh is issued only when composition is enabled
handleDwmCompositionChanged_RefreshIfEnabled(S, G, h) ==
    LET S1 == [S EXCEPT !.ud[h].dwmCompositionEnabled = G.dwm]
        S2 == IF G.dwm
              THEN Log(Log(S1, "ncrendering", S1.ud[h].hWnd, "", FALSE),
                       "extendframe", S1.ud[h].hWnd, "", FALSE)
              ELSE S1
        S3 == handleBlurForWindow(S2, G, h)
    IN IF G.dwm THEN updateWindow(S3, G, S3.ud[h].hWnd) ELSE S3

handleDwmCompositionChanged(S, G, h) ==
    LET S1 == [S EXCEPT !.ud[h].dwmCompositionEnabled = G.dwm]
        S2 == IF G.dwm
              THEN Log(Log(S1, "ncrendering", S1.ud[h].hWnd, "", FALSE),
                       "extendframe", S1.ud[h].hWnd, "", FALSE)
              ELSE S1
        S3 == handleBlurForWindow(S2, G, h)
    IN updateWindow(S3, G, S3.ud[h].hWnd)

init(S, G, h) ==
    LET w == S.ud[h].hWnd
        S1 == [S EXCEPT !.ud[h].inited = TRUE]
        S2 == Log([S1 EXCEPT !.style[w] = "frameless"], "init", w, "", FALSE)
        S3 == handleDwmCompositionChanged(S2, G, h)
    IN handleThemeChanged(S3, G, h)

\* mutant: the position-changed handler re-probes composition, and refreshes,
\* when the cached flag is stale
WindowPosChanged_Reprobes(S, G, h) ==
    IF S.ud[h].dwmCompositionEnabled # G.dwm
    THEN handleDwmCompositionChanged(S, G, h)
    ELSE Log(S, "invalidate", h, "WM_WINDOWPOSCHANGED", FALSE)

\* case WM_WINDOWPOSCHANGED: InvalidateRect(hwnd, nullptr, TRUE)
WindowPosChanged(S, G, h) == Log(S, "invalidate", h, "WM_WINDOWPOSCHANGED", FALSE)

\* mutant: WM_NCPAINT is blocked by what the platform reports now
NcPaintBlocked_Platform(S, G, h) == ~G.dwm

\* case WM_NCPAINT: blocked (*result = 0, return true) unless the record says
\* composition is enabled
NcPaintBlocked(S, G, h) == ~S.ud[h].dwmCompositionEnabled

\* the switch of nativeEventFilter; the result is [S, handled]
HandleMessage(S, G, h, m) ==
    CASE m = "WM_NCCREATE" ->
            \* lpCreateParams of a window the toolkit creates is null
            [S |-> [S EXCEPT !.ud[h] = NullPtr], handled |-> FALSE]
      [] m = "WM_NCCALCSIZE" ->
            [S |-> S, handled |-> TRUE]
      [] m = "WM_DWMCOMPOSITIONCHANGED" ->
            [S |-> handleDwmCompositionChanged(S, G, h), handled |-> TRUE]
      [] m \in {"WM_NCUAHDRAWCAPTION", "WM_NCUAHDRAWFRAME"} ->
            [S |-> S, handled |-> TRUE]
      [] m = "WM_NCPAINT" ->
            [S |-> S, handled |-> NcPaintBlocked(S, G, h)]
      [] m = "WM_NCACTIVATE" ->
            [S |-> NcActivate(S, h), handled |-> TRUE]
      [] m = "WM_NCHITTEST" ->
            [S |-> S, handled |-> TRUE]
      [] m \in {"WM_SETICON", "WM_SETTEXT"} ->
            IF ~S.ud[h].dwmCompositionEnabled /\ ~S.ud[h].themeEnabled
            THEN [S |-> SetIconOrText(S, h, m), handled |-> TRUE]
            ELSE [S |-> S, handled |-> FALSE]
      [] m = "WM_THEMECHANGED" ->
            [S |-> handleThemeChanged(S, G, h), handled |-> FALSE]
      [] m = "WM_WINDOWPOSCHANGED" ->
            [S |-> WindowPosChanged(S, G, h), handled |-> FALSE]
      [] m = "WM_DPICHANGED" ->
            [S |-> updateWindow(S, G, h), handled |-> FALSE]
      [] OTHER ->
            [S |-> S, handled |-> FALSE]

nativeEventFilter(S, G, hwnd, m) ==
    IF hwnd = NULL THEN [S |-> S, handled |-> FALSE]
    ELSE IF ~PassesGate(G.list, hwnd) THEN [S |-> S, handled |-> FALSE]
    ELSE LET S1 == createUserData(S, hwnd, NullPtr)
             S2 == IF ~S1.ud[hwnd].inited THEN init(S1, G, hwnd) ELSE S1
             r == HandleMessage(S2, G, hwnd, m)
         IN [S |-> Log(r.S, "filter", hwnd, m, r.handled), handled |-> r.handled]

----------------------------------------------------------------------------
(* The operations of WinNativeEventFilter as actions                       *)

\* the state an operation starts from, with an empty trace
Start == [ud |-> userData, style |-> style, trace |-> <<>>]
Ctx(list, installed) == [list |-> list, installed |-> installed, dwm |-> platform.dwm, theme |-> platform.theme]

\* writes back what message handling produced
Commit(S) ==
    /\ userData' = S.ud
    /\ style' = S.style
    /\ trace' = S.trace

Op(name, w, d, m, acted) == [op |-> name, hwnd |-> w, data |-> d, msg |-> m, acted |-> acted, again |-> FALSE]

FilterIdle ==
    /\ m_framelessWindows = <<>>
    /\ instance = FALSE
    /\ userData = [h \in HWNDs |-> NullPtr]
    /\ style = [h \in HWNDs |-> "default"]
    /\ lastOp = Op("none", NULL, NullPtr, "", FALSE)
    /\ trace = <<>>

HitTestIdle ==
    /\ htIn = NullPtr
    /\ htOut = "none"

\* FramelessManagerPrivate before initialize()
NoThemeYet ==
    [m_systemTheme |-> "Unknown", m_overrideTheme |-> "nullopt",
     m_accentColor |-> "invalid", m_colorizationArea |-> "None"]

ManagerIdle ==
    /\ windowIds = <<>>
    /\ wmWindowIds = <<>>
    /\ qtData = [id \in HWNDs |-> NullPtr]
    /\ winData = {}
    /\ hooks = {}
    /\ framelessHint = {}
    /\ managerPrivate = NoThemeYet
    /\ threads = [t \in Threads |-> [pc |-> "idle", fn |-> "none", id |-> NULL, settings |-> NullPtr,
                                    found |-> FALSE, ret |-> "none"]]
    /\ mutexes = [wm |-> NULL, qt |-> NULL]

InitFilter ==
    /\ component = "filter"
    /\ FilterIdle
    /\ platform \in {[dwm |-> TRUE, theme |-> TRUE], [dwm |-> FALSE, theme |-> FALSE]}
    /\ ManagerIdle
    /\ pureQt = FALSE
    /\ HitTestIdle

\* the previous call has returned: nothing of it is left to observe
Idle == component \in {"filter", "notify"} /\ lastOp.op = "none"

\* the caller goes on: lastOp and trace describe a call only until then
Return ==
    /\ component \in {"filter", "manager", "notify"}
    /\ lastOp.op # "none"
    /\ lastOp' = Op("none", NULL, NullPtr, "", FALSE)
    /\ trace' = <<>>
    /\ UNCHANGED <<component, m_framelessWindows, instance, userData, style, platform, managerVars, hitTestVars>>

\* install()
Install ==
    /\ Idle
    /\ instance' = TRUE
    /\ lastOp' = Op("install", NULL, NullPtr, "", ~instance)
    /\ trace' = <<>>
    /\ UNCHANGED <<component, m_framelessWindows, userData, style, platform, managerVars, hitTestVars>>

RECURSIVE UpdateAll(_, _, _, _)
\* the loop of uninstall(): updateWindow for list[i..]
UpdateAll(S, G, list, i) ==
    IF i > Len(list) THEN S
    ELSE UpdateAll(updateWindow(S, G, list[i]), G, list, i + 1)

\* mutant: the list survives uninstall
Uninstall_KeepsList ==
    /\ Idle
    /\ instance' = FALSE
    /\ Commit(UpdateAll(Start, Ctx(m_framelessWindows, FALSE), m_framelessWindows, 1))
    /\ lastOp' = Op("uninstall", NULL, NullPtr, "", instance \/ Len(m_framelessWindows) > 0)
    /\ UNCHANGED <<component, m_framelessWindows, platform, managerVars, hitTestVars>>

\* uninstall()
Uninstall ==
    /\ Idle
    /\ instance' = FALSE
    /\ m_framelessWindows' = <<>>
    /\ Commit(UpdateAll(Start, Ctx(m_framelessWindows, FALSE), m_framelessWindows, 1))
    /\ lastOp' = Op("uninstall", NULL, NullPtr, "", instance \/ Len(m_framelessWindows) > 0)
    /\ UNCHANGED <<component, platform, managerVars, hitTestVars>>

\* setFramelessWindows(windows)
SetFramelessWindows(windows) ==
    /\ Idle
    /\ LET acts == Len(windows) > 0 /\ windows # m_framelessWindows
       IN /\ m_framelessWindows' = IF acts THEN windows ELSE m_framelessWindows
          /\ instance' = IF acts THEN TRUE ELSE instance
          /\ lastOp' = Op("setList", NULL, NullPtr, "", acts)
    /\ trace' = <<>>
    /\ UNCHANGED <<component, userData, style, platform, managerVars, hitTestVars>>

\* mutant: the user data is written before the registry is consulted
AddFramelessWindow_WritesFirst(window, data) ==
    /\ Idle \/ (component = "filter" /\ lastOp.op = "add")
    /\ LET acts == window # NULL /\ ~Contains(m_framelessWindows, window)
           S == IF window # NULL /\ data # NullPtr THEN createUserData(Start, window, data) ELSE Start
       IN /\ m_framelessWindows' = IF acts THEN Append(m_framelessWindows, window) ELSE m_framelessWindows
          /\ instance' = IF acts THEN TRUE ELSE instance
          /\ Commit(S)
          /\ lastOp' = [Op("add", window, data, "", acts) EXCEPT
                           !.again = lastOp.op = "add" /\ lastOp.hwnd = window /\ lastOp.data # data]
    /\ UNCHANGED <<component, platform, managerVars, hitTestVars>>

\* mutant: registration runs the one-time setup of a record it has
AddFramelessWindow_Eager(window, data) ==
    /\ Idle \/ (component = "filter" /\ lastOp.op = "add")
    /\ LET acts == window # NULL /\ ~Contains(m_framelessWindows, window)
           list == IF acts THEN Append(m_framelessWindows, window) ELSE m_framelessWindows
           S1 == IF acts /\ data # NullPtr THEN createUserData(Start, window, data) ELSE Start
           S == IF acts /\ S1.ud[window] # NullPtr /\ ~S1.ud[window].inited
                THEN init(S1, Ctx(list, TRUE), window)
                ELSE S1
       IN /\ m_framelessWindows' = list
          /\ instance' = IF acts THEN TRUE ELSE instance
          /\ Commit(S)
          /\ lastOp' = [Op("add", window, data, "", acts) EXCEPT
                           !.again = lastOp.op = "add" /\ lastOp.hwnd = window /\ lastOp.data # data]
    /\ UNCHANGED <<component, platform, managerVars, hitTestVars>>

\* addFramelessWindow(window, data)
AddFramelessWindow(window, data) ==
    /\ Idle \/ (component = "filter" /\ lastOp.op = "add")
    /\ LET acts == window # NULL /\ ~Contains(m_framelessWindows, window)
           S == IF acts /\ data # NullPtr THEN createUserData(Start, window, data) ELSE Start
       IN /\ m_framelessWindows' = IF acts THEN Append(m_framelessWindows, window) ELSE m_framelessWindows
          /\ instance' = IF acts THEN TRUE ELSE instance
          /\ Commit(S)
          /\ lastOp' = [Op("add", window, data, "", acts) EXCEPT
                           !.again = lastOp.op = "add" /\ lastOp.hwnd = window /\ lastOp.data # data]
    /\ UNCHANGED <<component, platform, managerVars, hitTestVars>>

\* mutant: the registry is not consulted
RemoveFramelessWindow_Unguarded(window) ==
    /\ Idle
    /\ LET acts == window # NULL
           list == RemoveAll(m_framelessWindows, window)
           S == IF acts
                THEN updateWindow(Log(Start, "unlist", window, "", FALSE), Ctx(list, instance), window)
                ELSE Start
       IN /\ m_framelessWindows' = IF acts THEN list ELSE m_framelessWindows
          /\ Commit(S)
          /\ lastOp' = Op("remove", window, NullPtr, "", window # NULL /\ Contains(m_framelessWindows, window))
    /\ UNCHANGED <<component, instance, platform, managerVars, hitTestVars>>

\* mutant: the window is dropped from the list and not refreshed
RemoveFramelessWindow_NoRefresh(window) ==
    /\ Idle
    /\ LET acts == window # NULL /\ Contains(m_framelessWindows, window)
           list == RemoveAll(m_framelessWindows, window)
           S == IF acts THEN Log(Start, "unlist", window, "", FALSE) ELSE Start
       IN /\ m_framelessWindows' = IF acts THEN list ELSE m_framelessWindows
          /\ Commit(S)
          /\ lastOp' = Op("remove", window, NullPtr, "", acts)
    /\ UNCHANGED <<component, instance, platform, managerVars, hitTestVars>>

\* removeFramelessWindow(window)
RemoveFramelessWindow(window) ==
    /\ Idle
    /\ LET acts == window # NULL /\ Contains(m_framelessWindows, window)
           list == RemoveAll(m_framelessWindows, window)
           S == IF acts
                THEN updateWindow(Log(Start, "unlist", window, "", FALSE), Ctx(list, instance), window)
                ELSE Start
       IN /\ m_framelessWindows' = IF acts THEN list ELSE m_framelessWindows
          /\ Commit(S)
          /\ lastOp' = Op("remove", window, NullPtr, "", acts)
    /\ UNCHANGED <<component, instance, platform, managerVars, hitTestVars>>

\* clearFramelessWindows()
ClearFramelessWindows ==
    /\ Idle
    /\ m_framelessWindows' = <<>>
    /\ lastOp' = Op("clear", NULL, NullPtr, "", Len(m_framelessWindows) > 0)
    /\ trace' = <<>>
    /\ UNCHANGED <<component, instance, userData, style, platform, managerVars, hitTestVars>>

\* what borderWidth / borderHeight / titlebarHeight / windowData do to the state
Getter(name, handle) ==
    /\ Idle
    /\ Commit(createUserData(Start, handle, NullPtr))
    /\ lastOp' = Op(name, handle, NullPtr, "", handle # NULL)
    /\ UNCHANGED <<component, m_framelessWindows, instance, platform, managerVars, hitTestVars>>

BorderWidth(handle) == Getter("borderWidth", handle)
BorderHeight(handle) == Getter("borderHeight", handle)
TitlebarHeight(handle) == Getter("titlebarHeight", handle)
WindowData(handle) == Getter("windowData", handle)

\* the caller of windowData(handle) stores data through the pointer it was
\* handed, which points into the record of the window
WriteReturned(data) ==
    /\ component = "filter"
    /\ lastOp.op = "windowData"
    /\ lastOp.hwnd # NULL
    /\ userData' = [userData EXCEPT ![lastOp.hwnd].windowData = data]
    /\ lastOp' = Op("writeReturned", lastOp.hwnd, data, "", TRUE)
    /\ trace' = <<>>
    /\ UNCHANGED <<component, m_framelessWindows, instance, style, platform, managerVars, hitTestVars>>

\* mutant: the data pointer is not tested
SetWindowData_NoDataCheck(window, data) ==
    /\ Idle
    /\ LET acts == window # NULL
           S == IF acts
                THEN updateWindow(createUserData(Start, window, data), Ctx(m_framelessWindows, instance), window)
                ELSE Start
       IN /\ Commit(S)
          /\ lastOp' = Op("setWindowData", window, data, "", acts /\ data # NullPtr)
    /\ UNCHANGED <<component, m_framelessWindows, instance, platform, managerVars, hitTestVars>>

\* setWindowData(window, data)
SetWindowData(window, data) ==
    /\ Idle
    /\ LET acts == window # NULL /\ data # NullPtr
           S == IF acts
                THEN updateWindow(createUserData(Start, window, data), Ctx(m_framelessWindows, instance), window)
                ELSE Start
       IN /\ Commit(S)
          /\ lastOp' = Op("setWindowData", window, data, "", acts)
    /\ UNCHANGED <<component, m_framelessWindows, instance, platform, managerVars, hitTestVars>>

\* updateWindow(handle), called from outside
UpdateWindow(handle) ==
    /\ Idle
    /\ Commit(updateWindow(Start, Ctx(m_framelessWindows, instance), handle))
    /\ lastOp' = Op("updateWindow", handle, NullPtr, "", handle # NULL)
    /\ UNCHANGED <<component, m_framelessWindows, instance, platform, managerVars, hitTestVars>>

\* the system delivers message m to window hwnd (a null hwnd reaches the
\* filter only: there is no window procedure to fall back to)
Message(hwnd, m) ==
    /\ Idle
    /\ LET G == Ctx(m_framelessWindows, instance)
           S == IF hwnd # NULL THEN WndProc(Start, G, hwnd, m)
                ELSE IF instance THEN nativeEventFilter(Start, G, hwnd, m).S
                ELSE Start
       IN Commit(S)
    /\ lastOp' = Op("message", hwnd, NullPtr, m, instance)
    /\ UNCHANGED <<component, m_framelessWindows, instance, platform, managerVars, hitTestVars>>

NextFilter ==
    \/ Install
    \/ Uninstall
    \/ \E ws \in ListChoices : SetFramelessWindows(ws)
    \/ \E w \in HWNDs \cup {NULL}, d \in DataChoices \cup {NullPtr} : AddFramelessWindow(w, d)
    \/ \E w \in HWNDs \cup {NULL} : RemoveFramelessWindow(w)
    \/ ClearFramelessWindows
    \/ \E h \in HWNDs \cup {NULL} : BorderWidth(h)
    \/ \E h \in HWNDs \cup {NULL} : BorderHeight(h)
    \/ \E h \in HWNDs \cup {NULL} : TitlebarHeight(h)
    \/ \E h \in HWNDs \cup {NULL} : WindowData(h)
    \/ \E d \in DataChoices : WriteReturned(d)
    \/ \E w \in HWNDs \cup {NULL}, d \in DataChoices \cup {NullPtr} : SetWindowData(w, d)
    \/ \E h \in HWNDs \cup {NULL} : UpdateWindow(h)
    \/ \E h \in HWNDs \cup {NULL}, m \in Messages : Message(h, m)
    \/ Return

SpecFilter == InitFilter /\ [][NextFilter]_vars

----------------------------------------------------------------------------
(* The managers and the toolkit-event helper                               *)

\* UserSettings as the callers of the model pass them: options only
Settings1 == [dontInstallSystemMenuHook |-> FALSE, dontTouchCursorShape |-> FALSE]
Settings2 == [dontInstallSystemMenuHook |-> TRUE, dontTouchCursorShape |-> TRUE]
SettingsChoices == {Settings1, Settings2}

\* M: the part of the state the helpers write, [qt, hint, trace]
MStart == [qt |-> qtData, hint |-> framelessHint, trace |-> <<>>]

\* FramelessHelperQt::addWindow(settings, params), params valid
QtAddWindow(M, settings, windowId) ==
    IF M.qt[windowId] # NullPtr THEN M
    ELSE LET M1 == [M EXCEPT !.qt[windowId] = [settings |-> settings, window |-> windowId, eventFilter |-> TRUE]]
             M2 == Log([M1 EXCEPT !.hint = @ \cup {windowId}], "setFramelessHint", windowId, "", FALSE)
         IN Log(M2, "installEventFilter", windowId, "", FALSE)

\* FramelessHelperQt::removeWindow(window): the entry of the window is deleted
QtRemoveWindow(M, windowId) ==
    Log([M EXCEPT !.qt[windowId] = NullPtr], "qtRemove", windowId, "", FALSE)

\* FramelessHelperQt::appliedWinId(window): the id the window is registered
\* under in the helper's table, 0 when it is not
appliedWinId(qt, windowId) == IF qt[windowId] # NullPtr THEN windowId ELSE NULL

MIdle == component = "manager" /\ lastOp.op = "none"

\* FramelessWindowsManagerPrivate::addWindow(settings, params);
\* windowId = NULL stands for params that are not valid
WmAddWindow(settings, windowId) ==
    /\ MIdle \/ (component = "manager" /\ lastOp.op = "wmAdd")
    /\ LET acts == windowId # NULL /\ ~Contains(wmWindowIds, windowId)
           M0 == Log(MStart, "list", windowId, "", FALSE)
           M1 == IF pureQt THEN QtAddWindow(M0, settings, windowId) ELSE M0
           M2 == IF ~pureQt THEN Log(M1, "winAdd", windowId, "", FALSE) ELSE M1
           hook == ~settings.dontInstallSystemMenuHook
           M3 == IF hook THEN Log(M2, "installHook", windowId, "", FALSE) ELSE M2
           M == IF acts THEN M3 ELSE MStart
       IN /\ wmWindowIds' = IF acts THEN Append(wmWindowIds, windowId) ELSE wmWindowIds
          /\ qtData' = M.qt
          /\ framelessHint' = M.hint
          /\ winData' = IF acts /\ ~pureQt THEN winData \cup {windowId} ELSE winData
          /\ hooks' = IF acts /\ hook THEN hooks \cup {windowId} ELSE hooks
          /\ trace' = M.trace
          /\ lastOp' = [Op("wmAdd", windowId, settings, "", acts) EXCEPT
                           !.again = lastOp.op = "wmAdd" /\ lastOp.hwnd = windowId /\ lastOp.data # settings]
    /\ UNCHANGED <<component, m_framelessWindows, instance, userData, style, platform, windowIds, pureQt, managerPrivate, threads, mutexes, hitTestVars>>

\* FramelessHelperQt::addWindow(settings, params) called directly;
\* windowId = NULL stands for params that are not valid
QtHelperAddWindow(settings, windowId) ==
    /\ MIdle \/ (component = "manager" /\ lastOp.op = "qtAdd")
    /\ LET acts == windowId # NULL /\ qtData[windowId] = NullPtr
           M == IF windowId # NULL THEN QtAddWindow(MStart, settings, windowId) ELSE MStart
       IN /\ qtData' = M.qt
          /\ framelessHint' = M.hint
          /\ trace' = M.trace
          /\ lastOp' = [Op("qtAdd", windowId, settings, "", acts) EXCEPT
                           !.again = lastOp.op = "qtAdd" /\ lastOp.hwnd = windowId /\ lastOp.data # settings]
    /\ UNCHANGED <<component, m_framelessWindows, instance, userData, style, platform, windowIds, wmWindowIds, winData, hooks, pureQt, managerPrivate, threads, mutexes, hitTestVars>>

\* FramelessManagerPrivate::addWindow(params); windowId = NULL stands for
\* null params
MgrAddWindow(settings, windowId) ==
    /\ MIdle
    /\ LET acts == windowId # NULL /\ ~Contains(windowIds, windowId)
           M0 == Log(MStart, "list", windowId, "", FALSE)
           M1 == IF pureQt THEN QtAddWindow(M0, settings, windowId) ELSE M0
           M2 == IF ~pureQt THEN Log(M1, "winAdd", windowId, "", FALSE) ELSE M1
           M3 == Log(M2, "installHook", windowId, "", FALSE)
           M == IF acts THEN M3 ELSE MStart
       IN /\ windowIds' = IF acts THEN Append(windowIds, windowId) ELSE windowIds
          /\ qtData' = M.qt
          /\ framelessHint' = M.hint
          /\ winData' = IF acts /\ ~pureQt THEN winData \cup {windowId} ELSE winData
          /\ hooks' = IF acts THEN hooks \cup {windowId} ELSE hooks
          /\ trace' = M.trace
          /\ lastOp' = Op("mgrAdd", windowId, settings, "", acts)
    /\ UNCHANGED <<component, m_framelessWindows, instance, userData, style, platform, wmWindowIds, pureQt, managerPrivate, threads, mutexes, hitTestVars>>

\* FramelessManagerPrivate::removeWindow(window); window = NULL stands for a
\* null QWindow, otherwise window->winId() = window
MgrRemoveWindow(window) ==
    /\ MIdle
    /\ LET listed == Contains(windowIds, window)
           windowId == IF listed THEN window ELSE appliedWinId(qtData, window)
           acts == window # NULL /\ windowId # NULL
           M0 == Log(MStart, "unlist", windowId, "", FALSE)
           M1 == IF pureQt THEN QtRemoveWindow(M0, window) ELSE M0
           M2 == IF ~pureQt THEN Log(M1, "winRemove", windowId, "", FALSE) ELSE M1
           M3 == Log(M2, "uninstallHook", windowId, "", FALSE)
           M == IF acts THEN M3 ELSE MStart
       IN /\ windowIds' = IF acts THEN RemoveAll(windowIds, windowId) ELSE windowIds
          /\ qtData' = M.qt
          /\ framelessHint' = M.hint
          /\ winData' = IF acts /\ ~pureQt THEN winData \ {windowId} ELSE winData
          /\ hooks' = IF acts THEN hooks \ {windowId} ELSE hooks
          /\ trace' = M.trace
          /\ lastOp' = Op("mgrRemove", window, NullPtr, "", acts)
    /\ UNCHANGED <<component, m_framelessWindows, instance, userData, style, platform, wmWindowIds, pureQt, managerPrivate, threads, mutexes, hitTestVars>>

InitManager ==
    /\ component = "manager"
    /\ FilterIdle
    /\ platform = [dwm |-> TRUE, theme |-> TRUE]
    /\ ManagerIdle
    /\ pureQt \in BOOLEAN
    /\ HitTestIdle

NextManager ==
    \/ \E st \in SettingsChoices, id \in HWNDs \cup {NULL} : WmAddWindow(st, id)
    \/ \E st \in SettingsChoices, id \in HWNDs \cup {NULL} : QtHelperAddWindow(st, id)
    \/ \E st \in SettingsChoices, id \in HWNDs \cup {NULL} : MgrAddWindow(st, id)
    \/ \E w \in HWNDs \cup {NULL} : MgrRemoveWindow(w)
    \/ Return

SpecManager == InitManager /\ [][NextManager]_vars

\* the registry of either kind
Spec == (InitFilter \/ InitManager) /\ [][NextFilter \/ NextManager]_vars

----------------------------------------------------------------------------
(* The entry points called from two threads, statement by statement        *)

\* what the statements of a thread leave alone
threadFrame == <<component, m_framelessWindows, instance, userData, style, lastOp, platform, pureQt, managerPrivate, hitTestVars>>

ThreadFns == {"wmAdd", "qtAdd", "mgrAdd", "eventFilter"}

\* the first statement of each entry point
EntryPc(fn) ==
    CASE fn = "wmAdd" -> "wm_getWindowId"
      [] fn = "qtAdd" -> "qt_getWindowId"
      [] fn = "mgrAdd" -> "fm_getWindowId"
      [] OTHER -> "ef_winId"

Goto(t, pc) == threads' = [threads EXCEPT ![t].pc = pc]
At_(t, pc) == component = "threads" /\ threads[t].pc = pc
Holds(t) == {m \in {"wm", "qt"} : mutexes[m] = t}
\* an effect issued by thread t, tagged with the entry point it is in
Issue(t, kind) == trace' = Append(trace, Event(kind, threads[t].id, threads[t].fn, FALSE))

\* a thread enters an entry point with valid params / a window object
ThreadCall(t, fn, id, settings) ==
    /\ At_(t, "idle")
    /\ threads[t].fn = "none"
    /\ threads' = [threads EXCEPT ![t] = [pc |-> EntryPc(fn), fn |-> fn, id |-> id, settings |-> settings,
                                          found |-> FALSE, ret |-> "done"]]
    /\ UNCHANGED <<threadFrame, trace, windowIds, wmWindowIds, qtData, winData, hooks, framelessHint, mutexes>>

\* a statement that only calls out: params.getWindowId(), window->winId()
\* params.getWindowHandle() with connect(), params.isWindowFixedSize()
CallOut(t, pc, next) ==
    /\ At_(t, pc)
    /\ Goto(t, next)
    /\ UNCHANGED <<threadFrame, trace, windowIds, wmWindowIds, qtData, winData, hooks, framelessHint, mutexes>>

\* mutex.lock()
Lock(t, pc, m, next) ==
    /\ At_(t, pc)
    /\ mutexes[m] = NULL
    /\ mutexes' = [mutexes EXCEPT ![m] = t]
    /\ Goto(t, next)
    /\ UNCHANGED <<threadFrame, trace, windowIds, wmWindowIds, qtData, winData, hooks, framelessHint>>

\* FramelessWindowsManagerPrivate::addWindow
WmGetWindowId(t) == CallOut(t, "wm_getWindowId", "wm_lock")
WmLock(t) == Lock(t, "wm_lock", "wm", "wm_check")

\* contains / append under the mutex
WmCheck(t) ==
    /\ At_(t, "wm_check")
    /\ LET id == threads[t].id
           found == Contains(wmWindowIds, id)
       IN /\ wmWindowIds' = IF found THEN wmWindowIds ELSE Append(wmWindowIds, id)
          /\ IF found THEN trace' = trace ELSE Issue(t, "list")
          /\ threads' = [threads EXCEPT ![t].pc = "wm_unlock", ![t].found = found]
    /\ UNCHANGED <<threadFrame, windowIds, qtData, winData, hooks, framelessHint, mutexes>>

WmUnlock(t) ==
    /\ At_(t, "wm_unlock")
    /\ mutexes' = [mutexes EXCEPT !.wm = NULL]
    /\ threads' = [threads EXCEPT
                     ![t].pc = IF threads[t].found THEN "done"
                               ELSE IF pureQt THEN "qt_getWindowId" ELSE "wm_getWindowHandle",
                     ![t].ret = "wm_hook",
                     ![t].found = FALSE]
    /\ UNCHANGED <<threadFrame, trace, windowIds, wmWindowIds, qtData, winData, hooks, framelessHint>>

WmGetWindowHandle(t) == CallOut(t, "wm_getWindowHandle", "wm_winAdd")

\* FramelessHelperWin::addWindow(settings, params)
WmWinAdd(t) ==
    /\ At_(t, "wm_winAdd")
    /\ winData' = winData \cup {threads[t].id}
    /\ Issue(t, "winAdd")
    /\ Goto(t, "wm_hook")
    /\ UNCHANGED <<threadFrame, windowIds, wmWindowIds, qtData, hooks, framelessHint, mutexes>>

\* Utils::installSystemMenuHook unless the option forbids it
WmHook(t) ==
    /\ At_(t, "wm_hook")
    /\ IF threads[t].settings.dontInstallSystemMenuHook
       THEN UNCHANGED <<hooks, trace>>
       ELSE hooks' = hooks \cup {threads[t].id} /\ Issue(t, "installHook")
    /\ Goto(t, "done")
    /\ UNCHANGED <<threadFrame, windowIds, wmWindowIds, qtData, winData, framelessHint, mutexes>>

\* FramelessHelperQt::addWindow
QtGetWindowId(t) == CallOut(t, "qt_getWindowId", "qt_lock")
QtLock(t) == Lock(t, "qt_lock", "qt", "qt_check")

QtCheck(t) ==
    /\ At_(t, "qt_check")
    /\ LET found == qtData[threads[t].id] # NullPtr
       IN threads' = [threads EXCEPT ![t].pc = IF found THEN "qt_unlock" ELSE "qt_getWindowHandle",
                                     ![t].found = found]
    /\ UNCHANGED <<threadFrame, trace, windowIds, wmWindowIds, qtData, winData, hooks, framelessHint, mutexes>>

\* QWindow *window = params.getWindowHandle(), between lock() and unlock()
QtGetWindowHandle(t) == CallOut(t, "qt_getWindowHandle", "qt_insert")

\* new FramelessHelperQt(window); g_qtHelper()->data.insert(windowId, data)
QtInsert(t) ==
    /\ At_(t, "qt_insert")
    /\ qtData' = [qtData EXCEPT ![threads[t].id] =
                     [settings |-> threads[t].settings, window |-> threads[t].id, eventFilter |-> TRUE]]
    /\ Issue(t, "qtInsert")
    /\ Goto(t, "qt_unlock")
    /\ UNCHANGED <<threadFrame, windowIds, wmWindowIds, winData, hooks, framelessHint, mutexes>>

QtUnlock(t) ==
    /\ At_(t, "qt_unlock")
    /\ mutexes' = [mutexes EXCEPT !.qt = NULL]
    /\ threads' = [threads EXCEPT
                     ![t].pc = IF threads[t].found THEN threads[t].ret ELSE "qt_setWindowFlags",
                     ![t].found = FALSE]
    /\ UNCHANGED <<threadFrame, trace, windowIds, wmWindowIds, qtData, winData, hooks, framelessHint>>

\* params.setWindowFlags(params.getWindowFlags() | Qt::FramelessWindowHint)
QtSetWindowFlags(t) ==
    /\ At_(t, "qt_setWindowFlags")
    /\ framelessHint' = framelessHint \cup {threads[t].id}
    /\ Issue(t, "setFramelessHint")
    /\ Goto(t, "qt_installEventFilter")
    /\ UNCHANGED <<threadFrame, windowIds, wmWindowIds, qtData, winData, hooks, mutexes>>

\* window->installEventFilter(data.eventFilter)
QtInstallEventFilter(t) ==
    /\ At_(t, "qt_installEventFilter")
    /\ Issue(t, "installEventFilter")
    /\ Goto(t, threads[t].ret)
    /\ UNCHANGED <<threadFrame, windowIds, wmWindowIds, qtData, winData, hooks, framelessHint, mutexes>>

\* FramelessManagerPrivate::addWindow: no mutex
FmGetWindowId(t) == CallOut(t, "fm_getWindowId", "fm_check")

FmCheck(t) ==
    /\ At_(t, "fm_check")
    /\ Goto(t, IF Contains(windowIds, threads[t].id) THEN "done" ELSE "fm_append")
    /\ UNCHANGED <<threadFrame, trace, windowIds, wmWindowIds, qtData, winData, hooks, framelessHint, mutexes>>

\* g_helper()->windowIds.append(windowId).  When another thread is at its own
\* append the two writes race: the element lands in the list, or is lost.
FmAppend(t) ==
    /\ At_(t, "fm_append")
    /\ \/ windowIds' = Append(windowIds, threads[t].id)
       \/ /\ \E u \in Threads \ {t} : threads[u].pc = "fm_append"
          /\ windowIds' = windowIds
    /\ Issue(t, "list")
    /\ threads' = [threads EXCEPT ![t].pc = IF pureQt THEN "qt_getWindowId" ELSE "fm_winAdd",
                                  ![t].ret = "fm_hook"]
    /\ UNCHANGED <<threadFrame, wmWindowIds, qtData, winData, hooks, framelessHint, mutexes>>

FmWinAdd(t) ==
    /\ At_(t, "fm_winAdd")
    /\ winData' = winData \cup {threads[t].id}
    /\ Issue(t, "winAdd")
    /\ Goto(t, "fm_hook")
    /\ UNCHANGED <<threadFrame, windowIds, wmWindowIds, qtData, hooks, framelessHint, mutexes>>

FmHook(t) ==
    /\ At_(t, "fm_hook")
    /\ hooks' = hooks \cup {threads[t].id}
    /\ Issue(t, "installHook")
    /\ Goto(t, "done")
    /\ UNCHANGED <<threadFrame, windowIds, wmWindowIds, qtData, winData, framelessHint, mutexes>>

\* FramelessHelperQt::eventFilter for a mouse event of a window
EfWinId(t) == CallOut(t, "ef_winId", "ef_lock")
EfLock(t) == Lock(t, "ef_lock", "qt", "ef_check")

\* contains, and the copy of the entry
EfCheck(t) ==
    /\ At_(t, "ef_check")
    /\ threads' = [threads EXCEPT ![t].pc = "ef_unlock",
                                  ![t].found = qtData[threads[t].id] # NullPtr,
                                  ![t].settings = IF qtData[threads[t].id] # NullPtr
                                                  THEN qtData[threads[t].id].settings ELSE NullPtr]
    /\ UNCHANGED <<threadFrame, trace, windowIds, wmWindowIds, qtData, winData, hooks, framelessHint, mutexes>>

EfUnlock(t) ==
    /\ At_(t, "ef_unlock")
    /\ mutexes' = [mutexes EXCEPT !.qt = NULL]
    /\ Goto(t, IF threads[t].found THEN "ef_isWindowFixedSize" ELSE "done")
    /\ UNCHANGED <<threadFrame, trace, windowIds, wmWindowIds, qtData, winData, hooks, framelessHint>>

EfIsWindowFixedSize(t) == CallOut(t, "ef_isWindowFixedSize", "done")

\* the entry point returns to its caller
ThreadReturn(t) ==
    /\ At_(t, "done")
    /\ Goto(t, "idle")
    /\ UNCHANGED <<threadFrame, trace, windowIds, wmWindowIds, qtData, winData, hooks, framelessHint, mutexes>>

InitThreads ==
    /\ component = "threads"
    /\ FilterIdle
    /\ platform = [dwm |-> TRUE, theme |-> TRUE]
    /\ ManagerIdle
    /\ pureQt \in BOOLEAN
    /\ HitTestIdle

NextThreads ==
    \E t \in Threads :
        \/ \E fn \in ThreadFns, id \in HWNDs, st \in SettingsChoices : ThreadCall(t, fn, id, st)
        \/ WmGetWindowId(t) \/ WmLock(t) \/ WmCheck(t) \/ WmUnlock(t)
        \/ WmGetWindowHandle(t) \/ WmWinAdd(t) \/ WmHook(t)
        \/ QtGetWindowId(t) \/ QtLock(t) \/ QtCheck(t) \/ QtGetWindowHandle(t)
        \/ QtInsert(t) \/ QtUnlock(t) \/ QtSetWindowFlags(t) \/ QtInstallEventFilter(t)
        \/ FmGetWindowId(t) \/ FmCheck(t) \/ FmAppend(t) \/ FmWinAdd(t) \/ FmHook(t)
        \/ EfWinId(t) \/ EfLock(t) \/ EfCheck(t) \/ EfUnlock(t) \/ EfIsWindowFixedSize(t)
        \/ ThreadReturn(t)

SpecThreads == InitThreads /\ [][NextThreads]_vars

\* the positions whose statement calls a host-supplied callback or an OS /
\* toolkit API
HostCallPcs ==
    {"wm_getWindowId", "wm_getWindowHandle", "wm_winAdd", "wm_hook",
     "qt_getWindowId", "qt_getWindowHandle", "qt_setWindowFlags", "qt_installEventFilter",
     "fm_getWindowId", "fm_winAdd", "fm_hook", "ef_winId", "ef_isWindowFixedSize"}

\* C17 as stated: a thread that is about to call a host-supplied callback or
\* an OS / toolkit API holds no registry mutex.
C17_NoCallUnderMutex ==
    component = "threads" =>
        \A t \in Threads : threads[t].pc \in HostCallPcs => Holds(t) = {}

Occurrences(list, id) == Cardinality({i \in 1..Len(list) : list[i] = id})
CountIssued(kind, id, fn) ==
    Cardinality({i \in 1..Len(trace) : trace[i] = Event(kind, id, fn, FALSE)})
Returned(t, fn) == threads[t].pc = "idle" /\ threads[t].fn = fn

\* C18 as stated: under every interleaving of concurrent addWindow calls an
\* id is in the id list at most once, the platform helper's addWindow runs at
\* most once per id and manager, at most one event filter is installed per
\* id, and the id of every returned addWindow is in the list.
C18_ConcurrentAddRegistersOnce ==
    component = "threads" =>
        /\ \A id \in HWNDs :
              /\ Occurrences(wmWindowIds, id) <= 1
              /\ Occurrences(windowIds, id) <= 1
              /\ CountIssued("winAdd", id, "wmAdd") <= 1
              /\ CountIssued("winAdd", id, "mgrAdd") <= 1
              /\ Cardinality({i \in 1..Len(trace) :
                                 trace[i].ev = "installEventFilter" /\ trace[i].hwnd = id}) <= 1
        /\ \A t \in Threads :
              /\ Returned(t, "wmAdd") => Contains(wmWindowIds, threads[t].id)
              /\ Returned(t, "mgrAdd") => Contains(windowIds, threads[t].id)

----------------------------------------------------------------------------
(* Registry claims                                                         *)

filterCore == <<m_framelessWindows, instance, userData, style>>

HasEvent(tr, kind, h, m, handled) == \E i \in 1..Len(tr) : tr[i] = Event(kind, h, m, handled)
HasKind(tr, kind, h) == \E i \in 1..Len(tr) : tr[i].ev = kind /\ tr[i].hwnd = h
CountKind(tr, kind, h) == Cardinality({i \in 1..Len(tr) : tr[i].ev = kind /\ tr[i].hwnd = h})

\* C1: an addWindow that directly follows an addWindow of the same identity
\* takes the "already registered" branch and changes nothing: the list, the
\* per-window records (settings, inited, composition and theme flags), the
\* installed filter and the window styles are the same, no effect is issued,
\* whatever settings the second call passes.  Stated for
\* addFramelessWindow, FramelessWindowsManagerPrivate::addWindow and
\* FramelessHelperQt::addWindow.
C1_SecondAddIsNoOp ==
    [][ /\ (lastOp.op = "add" /\ lastOp'.op = "add" /\ lastOp.hwnd # NULL /\ lastOp'.hwnd = lastOp.hwnd)
              => (~lastOp'.acted /\ UNCHANGED filterCore /\ trace' = <<>>)
        /\ (lastOp.op \in {"wmAdd", "qtAdd"} /\ lastOp'.op = lastOp.op /\ lastOp.hwnd # NULL /\ lastOp'.hwnd = lastOp.hwnd)
              => (~lastOp'.acted /\ UNCHANGED managerVars /\ trace' = <<>>)
      ]_vars

\* C1 witness: a second addFramelessWindow of the same window with other
\* settings, after which the record still holds the settings of the first
C1_Witness ==
    /\ lastOp.op = "add"
    /\ lastOp.again
    /\ lastOp.hwnd # NULL
    /\ lastOp.data # NullPtr
    /\ userData[lastOp.hwnd] # NullPtr
    /\ userData[lastOp.hwnd].windowData \in DataChoices \ {lastOp.data}

\* a QWindow the manager or the Qt helper knows
MgrRegistered(w) == w # NULL /\ (Contains(windowIds, w) \/ appliedWinId(qtData, w) # NULL)

\* C2: removeWindow of an identity that is not registered takes the "not
\* found" branch and changes nothing: the list, every record, the helper and
\* hook state are the same and no refresh or helper removal is issued.
\* Stated for removeFramelessWindow and FramelessManagerPrivate::removeWindow.
C2_RemoveUnregisteredIsNoOp ==
    [][ /\ (lastOp'.op = "remove" /\ ~Contains(m_framelessWindows, lastOp'.hwnd))
              => (~lastOp'.acted /\ UNCHANGED filterCore /\ trace' = <<>>)
        /\ (lastOp'.op = "mgrRemove" /\ ~MgrRegistered(lastOp'.hwnd))
              => (~lastOp'.acted /\ UNCHANGED managerVars /\ trace' = <<>>)
      ]_vars

\* C2 witness: removeFramelessWindow of a window that is not in a non-empty
\* list, with the filter installed and a record present for that window
C2_Witness ==
    /\ lastOp.op = "remove"
    /\ lastOp.hwnd # NULL
    /\ ~lastOp.acted
    /\ instance
    /\ Len(m_framelessWindows) > 0
    /\ userData[lastOp.hwnd] # NullPtr
    /\ trace = <<>>

\* C3 as stated: a per-window record exists for a window exactly when the
\* window is in the registry.
C3_RecordIffRegistered ==
    component = "filter" =>
        \A h \in HWNDs : (userData[h] # NullPtr) <=> Contains(m_framelessWindows, h)

\* the filter handled nothing of window h and ran no setup for it
PassedThrough(tr, h) ==
    /\ ~HasKind(tr, "init", h)
    /\ \A i \in 1..Len(tr) : (tr[i].ev = "filter" /\ tr[i].hwnd = h) => ~tr[i].handled

C5_LeavingWindowIsRestored ==
    [][ \A h \in HWNDs :
            (Contains(m_framelessWindows, h) /\ ~Contains(m_framelessWindows', h))
                => /\ HasKind(trace', "refresh", h)
                   /\ HasEvent(trace', "default", h, "WM_NCCALCSIZE", FALSE)
                   /\ ~HasEvent(trace', "filter", h, "WM_NCCALCSIZE", TRUE)
      ]_vars

\* the position of the first event of a kind for h in a trace, 0 if none
FirstIndex(tr, kinds, h) ==
    LET I == {i \in 1..Len(tr) : tr[i].ev \in kinds /\ tr[i].hwnd = h}
    IN IF I = {} THEN 0 ELSE CHOOSE i \in I : \A j \in I : i <= j

RestoreKinds == {"refresh", "qtRemove", "winRemove"}
RemovalDone == lastOp.op \in {"remove", "mgrRemove"} /\ lastOp.acted
\* the id a removal worked on
RemovedId == IF trace # <<>> THEN trace[1].hwnd ELSE NULL

\* C6 as stated: in a removal the restore step for id is issued before id
\* leaves the registry.
C6_RestoreBeforeUnlist ==
    RemovalDone =>
        /\ FirstIndex(trace, RestoreKinds, RemovedId) > 0
        /\ FirstIndex(trace, RestoreKinds, RemovedId) < FirstIndex(trace, {"unlist"}, RemovedId)

\* C6 amended: a removal takes id out of the id list first and issues the
\* restore step for id (the frame refresh, the helper's removeWindow) right
\* after it, within the same call.
C6_UnlistThenRestore ==
    RemovalDone =>
        /\ Len(trace) >= 2
        /\ trace[1] = Event("unlist", RemovedId, "", FALSE)
        /\ trace[2].ev \in RestoreKinds
        /\ trace[2].hwnd = RemovedId
        /\ lastOp.op = "remove" => (RemovedId = lastOp.hwnd /\ ~Contains(m_framelessWindows, RemovedId))
        /\ lastOp.op = "mgrRemove" => ~Contains(windowIds, RemovedId)

\* C6 witness: removeFramelessWindow of a registered window under the
\* installed filter, the refresh coming after the list removal
C6_Witness ==
    /\ lastOp.op = "remove"
    /\ lastOp.acted
    /\ instance
    /\ Len(m_framelessWindows) > 0
    /\ trace[2] = Event("refresh", lastOp.hwnd, "", FALSE)
    /\ HasEvent(trace, "default", lastOp.hwnd, "WM_NCCALCSIZE", FALSE)

\* C7 as stated: init runs at most once for a window handle: never on a
\* window a previous init has styled, and never twice within one operation.
C7_InitRunsOnce ==
    [][ \A h \in HWNDs :
            HasKind(trace', "init", h) => (style[h] = "default" /\ CountKind(trace', "init", h) = 1)
      ]_vars

\* C15 as stated: lookup returns a copy for a registered window and "absent"
\* for an unregistered one, never creates or modifies a record, and a write
\* to what it returned never changes a stored record.
C15_LookupCopiesOut ==
    [][ /\ lastOp'.op = "windowData" =>
              /\ UNCHANGED userData
              /\ ~Contains(m_framelessWindows, lastOp'.hwnd) => ~lastOp'.acted
        /\ lastOp'.op = "writeReturned" => UNCHANGED userData
      ]_vars

\* the operations that take a window identity
IdOps ==
    {"add", "remove", "setWindowData", "windowData", "updateWindow", "message",
     "borderWidth", "borderHeight", "titlebarHeight", "wmAdd", "qtAdd", "mgrAdd", "mgrRemove"}

\* op is a call with a null identity, or setWindowData with null data
NullCall(op) ==
    \/ op.op \in IdOps /\ op.hwnd = NULL
    \/ op.op = "setWindowData" /\ op.data = NullPtr

InitedOf(ud, h) == ud[h] # NullPtr /\ ud[h].inited

C35_ListHasNoNullNoDuplicate ==
    component = "filter" =>
        /\ \A i \in 1..Len(m_framelessWindows) : m_framelessWindows[i] # NULL
        /\ \A i, j \in 1..Len(m_framelessWindows) :
              i # j => m_framelessWindows[i] # m_framelessWindows[j]

\* C40: the filter is installed by every add and set-list that takes effect
\* and stays the one installed when it already was; install on an installed
\* filter installs nothing; after uninstall no filter is installed and the
\* list is empty; an add that takes effect after that installs it again.
C40_FilterLifecycle ==
    [][component = "filter" =>
        /\ (lastOp'.op \in {"add", "setList"} /\ lastOp'.acted) => instance'
        /\ (lastOp'.op = "install") => (instance' /\ (lastOp'.acted <=> ~instance))
        /\ (lastOp'.op = "uninstall") => (~instance' /\ m_framelessWindows' = <<>>)
        /\ (lastOp'.op \notin {"add", "setList", "install", "uninstall"}) => instance' = instance
        /\ (lastOp'.op \in {"add", "setList"} /\ ~lastOp'.acted) => instance' = instance]_vars

\* C40 witness: uninstall has removed an installed filter that had a window
\* initialized; no filter is installed and the list is empty
C40_Witness ==
    /\ component = "filter"
    /\ lastOp.op = "uninstall" /\ lastOp.acted
    /\ HasKind(trace, "refresh", 1)
    /\ userData[1] # NullPtr
    /\ userData[1].inited
    /\ m_framelessWindows = <<>>
    /\ ~instance

----------------------------------------------------------------------------
(* The hit test on drawn inputs                                            *)

CoordRange == -1..MaxCoord
ClientWidths == {3, 6}
ClientHeights == {6}

IgnoreChoices == {<<>>, <<Rect(1, 1, 3, 3)>>, <<Rect(0, 0, 0, 0), Rect(2, 0, 4, 2)>>}
DraggableChoices == {<<>>, <<Rect(0, 0, 4, 4)>>, <<Rect(3, 1, 0, 2)>>}

HitTestWindowData ==
    {[DefaultWindowData EXCEPT !.borderWidth = bw, !.borderHeight = bh, !.titlebarHeight = tbh,
                               !.ignoreAreas = ig, !.draggableAreas = dr] :
        bw \in {0, 1, 2}, bh \in {0, 2}, tbh \in {0, 3},
        ig \in IgnoreChoices, dr \in DraggableChoices}

\* the window DPI, the rounding policy, whether GetSystemMetricsForDpi resolved
HitTestEnvs ==
    {[dpi |-> 96, policy |-> "Round", hasMetricsForDpi |-> TRUE],
     [dpi |-> 120, policy |-> "PassThrough", hasMetricsForDpi |-> TRUE],
     [dpi |-> 144, policy |-> "PassThrough", hasMetricsForDpi |-> FALSE],
     [dpi |-> 192, policy |-> "Round", hasMetricsForDpi |-> FALSE]}

HitTestInputs ==
    [hwnd : {1}, ww : ClientWidths, wh : ClientHeights, x : CoordRange, y : CoordRange,
     wd : HitTestWindowData, env : HitTestEnvs, maximized : BOOLEAN]

InitHitTest ==
    /\ component = "hittest"
    /\ FilterIdle
    /\ platform = [dwm |-> TRUE, theme |-> TRUE]
    /\ ManagerIdle
    /\ pureQt = FALSE
    /\ htIn \in HitTestInputs
    /\ htOut = "none"

\* WM_NCHITTEST for the drawn window and pointer position
NcHitTest ==
    /\ component = "hittest"
    /\ htOut = "none"
    /\ htOut' = getHTResult(htIn)
    /\ UNCHANGED <<component, filterVars, managerVars, htIn>>

NextHitTest == NcHitTest

SpecHitTest == InitHitTest /\ [][NextHitTest]_vars

\* the DPI scale of the drawn window
HtDpr == getDprForWindow(htIn.hwnd, htIn.env.dpi, htIn.env.policy)
HtDone == component = "hittest" /\ htOut # "none"

\* C8: a pointer position that is not strictly inside the client rectangle
\* (x <= 0, y <= 0, x >= width or y >= height) is classified as client area,
\* whatever the borders, the title bar, the areas and the maximized state.
C8_OutsideIsClient ==
    (HtDone /\ (htIn.x <= 0 \/ htIn.y <= 0 \/ htIn.x >= htIn.ww \/ htIn.y >= htIn.wh))
        => htOut = "HTCLIENT"

\* C8 witness: a position on the right edge column of a non-maximized window
\* with a border override, classified
C8_Witness ==
    /\ HtDone
    /\ htIn.x = htIn.ww
    /\ htIn.y = 1
    /\ ~htIn.maximized
    /\ htIn.wd.borderWidth = 2
    /\ htOut = "HTCLIENT"

\* a pointer position inside the scaled rectangle of a valid ignore area,
\* boundary pixels included
InIgnoreArea ==
    \E i \in 1..Len(htIn.wd.ignoreAreas) :
        /\ RectIsValid(htIn.wd.ignoreAreas[i])
        /\ RectContains(ScaledRect(htIn.wd.ignoreAreas[i], HtDpr), htIn.x, htIn.y, FALSE)

\* the same, boundary pixels excluded
StrictlyInIgnoreArea ==
    \E i \in 1..Len(htIn.wd.ignoreAreas) :
        LET r == ScaledRect(htIn.wd.ignoreAreas[i], HtDpr)
        IN /\ RectIsValid(htIn.wd.ignoreAreas[i])
           /\ r.x < htIn.x /\ htIn.x < r.x + r.w - 1
           /\ r.y < htIn.y /\ htIn.y < r.y + r.h - 1

\* C9 as stated: a pointer position inside the scaled rectangle of an ignore
\* area, its boundary pixels included, is never classified as title bar.
C9_IgnoreAreaBoundaryNeverCaption ==
    (HtDone /\ InIgnoreArea) => htOut # "HTCAPTION"

\* C9 amended: a pointer position strictly inside the scaled rectangle of an
\* ignore area (not on its boundary pixels) is never classified as title bar,
\* maximized or not, whatever the draggable areas.
C9_StrictlyInsideIgnoreAreaNeverCaption ==
    (HtDone /\ StrictlyInIgnoreArea) => htOut # "HTCAPTION"

\* C9 witness: a position strictly inside an ignore area and inside the title
\* strip, with a draggable area that contains it too, classified as client
C9_Witness ==
    /\ HtDone
    /\ StrictlyInIgnoreArea
    /\ isInsideWindow(htIn.x, htIn.y, htIn.ww, htIn.wh)
    /\ htIn.y < titlebarHeight(htIn.hwnd, htIn.wd, htIn.env)
    /\ isInSpecificAreas(htIn.x, htIn.y, htIn.wd.draggableAreas, HtDpr)
    /\ htOut = "HTCLIENT"

\* C10: for a maximized window the result is title bar or client area, for
\* every pointer position and border configuration.
C10_MaximizedNeverEdge ==
    (HtDone /\ htIn.maximized) => htOut \in {"HTCAPTION", "HTCLIENT"}

\* C10 witness: a maximized window and a position that is a top-left corner
\* when the window is not maximized
C10_Witness ==
    /\ HtDone
    /\ htIn.maximized
    /\ NormalResult(htIn) = "HTTOPLEFT"
    /\ htOut \in {"HTCAPTION", "HTCLIENT"}

\* the bands of the edge classification for the drawn input
HtInside == htIn.x > 0 /\ htIn.x < htIn.ww /\ htIn.y > 0 /\ htIn.y < htIn.wh
HtTop == HtInside /\ htIn.y < borderHeight(htIn.hwnd, htIn.wd, htIn.env)
HtBottom == HtInside /\ htIn.y > htIn.wh - borderHeight(htIn.hwnd, htIn.wd, htIn.env)
HtLeft == HtInside /\ htIn.x < borderWidth(htIn.hwnd, htIn.wd, htIn.env)
HtRight == HtInside /\ htIn.x > htIn.ww - borderWidth(htIn.hwnd, htIn.wd, htIn.env)

\* the decision list of the specification, corners first
ReferenceDecision ==
    IF HtTop /\ HtLeft THEN "HTTOPLEFT"
    ELSE IF HtTop /\ HtRight THEN "HTTOPRIGHT"
    ELSE IF HtBottom /\ HtLeft THEN "HTBOTTOMLEFT"
    ELSE IF HtBottom /\ HtRight THEN "HTBOTTOMRIGHT"
    ELSE IF HtTop THEN "HTTOP"
    ELSE IF HtBottom THEN "HTBOTTOM"
    ELSE IF HtLeft THEN "HTLEFT"
    ELSE IF HtRight THEN "HTRIGHT"
    ELSE IF isTitlebar(htIn) THEN "HTCAPTION"
    ELSE "HTCLIENT"

\* C28: for a window that is not maximized the result is the one the decision
\* list top-left, top-right, bottom-left, bottom-right, top, bottom, left,
\* right, title bar, client area gives, with the bands y < bh, y > h - bh,
\* x < bw, x > w - bw taken strictly inside the client rectangle, for every
\* position, client size and border, windows narrower or shorter than twice
\* the border included; the result is one of the ten codes.
C28_ResultIsReferenceDecision ==
    (HtDone /\ ~htIn.maximized) =>
        /\ htOut = ReferenceDecision
        /\ htOut \in EdgeCodes \cup {"HTCAPTION", "HTCLIENT"}

\* C28 witness: a window narrower and shorter than twice its border, a
\* position in all four bands, classified as the top-left corner
C28_Witness ==
    /\ HtDone
    /\ ~htIn.maximized
    /\ htIn.ww < 2 * borderWidth(htIn.hwnd, htIn.wd, htIn.env)
    /\ htIn.wh < 2 * borderHeight(htIn.hwnd, htIn.wd, htIn.env)
    /\ HtTop /\ HtBottom /\ HtLeft /\ HtRight
    /\ htOut = "HTTOPLEFT"

\* the position lies strictly inside the scaled rectangle of a valid area
StrictlyInArea(area) ==
    LET r == ScaledRect(area, HtDpr)
    IN /\ area.w >= 1 /\ area.h >= 1
       /\ r.x < htIn.x /\ htIn.x < r.x + r.w - 1
       /\ r.y < htIn.y /\ htIn.y < r.y + r.h - 1

StrictlyInAreas(areas) == \E i \in 1..Len(areas) : StrictlyInArea(areas[i])

\* the title-strip test of the specification
InTitleStrip ==
    /\ htIn.y < titlebarHeight(htIn.hwnd, htIn.wd, htIn.env)
    /\ ~StrictlyInAreas(htIn.wd.ignoreAreas)
    /\ (Len(htIn.wd.draggableAreas) = 0 \/ StrictlyInAreas(htIn.wd.draggableAreas))

OnlyInvalidDraggableAreas ==
    /\ Len(htIn.wd.draggableAreas) > 0
    /\ \A i \in 1..Len(htIn.wd.draggableAreas) :
          htIn.wd.draggableAreas[i].w < 1 \/ htIn.wd.draggableAreas[i].h < 1

\* C29: a position strictly inside the client rectangle is title bar exactly
\* when y < titlebarHeight, no valid ignore area (scaled by the DPI factor)
\* contains it and draggableAreas is empty or one of its valid scaled areas
\* contains it; a maximized window reports title bar exactly then, any other
\* window reports it exactly then unless an edge band applies; draggable
\* areas that are all invalid leave no position title bar.
C29_TitleStripTest ==
    (HtDone /\ HtInside) =>
        /\ isTitlebar(htIn) <=> InTitleStrip
        /\ htIn.maximized => (htOut = "HTCAPTION" <=> InTitleStrip)
        /\ ~htIn.maximized =>
              (htOut = "HTCAPTION" <=> (InTitleStrip /\ ~(HtTop \/ HtBottom \/ HtLeft \/ HtRight)))
        /\ OnlyInvalidDraggableAreas => htOut # "HTCAPTION"

\* C29 witness: at scale 2 a position inside the scaled draggable area but
\* outside the area as configured, in the title strip, classified title bar
C29_Witness ==
    /\ HtDone
    /\ htIn.maximized
    /\ htIn.env.dpi = 192
    /\ htIn.x = 5 /\ htIn.y = 5
    /\ htIn.wd.draggableAreas = <<Rect(0, 0, 4, 4)>>
    /\ ~RectContains(Rect(0, 0, 4, 4), htIn.x, htIn.y, TRUE)
    /\ htOut = "HTCAPTION"

\* an override times the scale factor of the drawn window
HtScaled(v) == (v * HtDpr) \div 96

\* the platform defaults of the drawn window: what the three functions give
\* when no override is configured
PlatformBorderWidth == borderWidth(htIn.hwnd, DefaultWindowData, htIn.env)
PlatformBorderHeight == borderHeight(htIn.hwnd, DefaultWindowData, htIn.env)
PlatformCaption == getSystemMetricsForWindow(htIn.hwnd, "SM_CYCAPTION", htIn.env)

\* C33 as stated: each of border width, border height and title-bar height is
\* its own override times the scale factor when that override is > 0 and
\* otherwise the platform default from the system metrics alone (title bar =
\* platform border height + caption metric), whatever the other overrides.
C33_EachMetricFromOwnOverride ==
    HtDone =>
        /\ borderWidth(htIn.hwnd, htIn.wd, htIn.env) =
              IF htIn.wd.borderWidth > 0 THEN HtScaled(htIn.wd.borderWidth)
              ELSE PlatformBorderWidth
        /\ borderHeight(htIn.hwnd, htIn.wd, htIn.env) =
              IF htIn.wd.borderHeight > 0 THEN HtScaled(htIn.wd.borderHeight)
              ELSE PlatformBorderHeight
        /\ titlebarHeight(htIn.hwnd, htIn.wd, htIn.env) =
              IF htIn.wd.titlebarHeight > 0 THEN HtScaled(htIn.wd.titlebarHeight)
              ELSE PlatformBorderHeight + PlatformCaption

----------------------------------------------------------------------------
(* The hit test on the 800 x 600 window                                    *)

ScenarioClient == Size(800, 600)
ScenarioIgnoreArea == Rect(350, 0, 100, 32)
ScenarioXs == {0, 4, 8, 350, 400, 449, 450, 792, 796, 800}
ScenarioYs == {0, 4, 8, 16, 31, 32, 300, 592, 596, 600}

\* border 8 as an override or as the platform default (4 + 4 at 96 DPI),
\* title bar 32 as an override
ScenarioWindowData ==
    {[DefaultWindowData EXCEPT !.borderWidth = bw, !.borderHeight = bh, !.titlebarHeight = 32,
                               !.ignoreAreas = ig] :
        bw \in {0, 8}, bh \in {0, 8}, ig \in {<<>>, <<ScenarioIgnoreArea>>}}

\* scale 1.0
ScenarioEnvs ==
    {[dpi |-> USER_DEFAULT_SCREEN_DPI, policy |-> "Round", hasMetricsForDpi |-> TRUE],
     [dpi |-> USER_DEFAULT_SCREEN_DPI, policy |-> "PassThrough", hasMetricsForDpi |-> FALSE]}

ScenarioInputs ==
    [hwnd : {1}, ww : {ScenarioClient.w}, wh : {ScenarioClient.h}, x : ScenarioXs, y : ScenarioYs,
     wd : ScenarioWindowData, env : ScenarioEnvs, maximized : BOOLEAN]

InitScenario ==
    /\ component = "hittest"
    /\ FilterIdle
    /\ platform = [dwm |-> TRUE, theme |-> TRUE]
    /\ ManagerIdle
    /\ pureQt = FALSE
    /\ htIn \in ScenarioInputs
    /\ htOut = "none"

SpecScenario == InitScenario /\ [][NextHitTest]_vars

\* the drawn window is the window of the scenario: client 800 x 600,
\* effective border 8, effective title bar 32, scale 1.0
IsScenario ==
    /\ htIn.ww = 800 /\ htIn.wh = 600
    /\ borderWidth(htIn.hwnd, htIn.wd, htIn.env) = 8
    /\ borderHeight(htIn.hwnd, htIn.wd, htIn.env) = 8
    /\ titlebarHeight(htIn.hwnd, htIn.wd, htIn.env) = 32
    /\ HtDpr = USER_DEFAULT_SCREEN_DPI
    /\ htIn.wd.draggableAreas = <<>>

At(px, py) == htIn.x = px /\ htIn.y = py

\* C11: in the non-maximized 800 x 600 window with border 8, title bar 32 and
\* scale 1.0, (4,4) is the top-left corner, (400,16) is title bar without
\* ignore areas and client area with the ignore area (350,0,100,32), and
\* (400,300) is client area.
C11_NormalScenario ==
    (HtDone /\ IsScenario /\ ~htIn.maximized) =>
        /\ At(4, 4) => htOut = "HTTOPLEFT"
        /\ (At(400, 16) /\ htIn.wd.ignoreAreas = <<>>) => htOut = "HTCAPTION"
        /\ (At(400, 16) /\ htIn.wd.ignoreAreas = <<ScenarioIgnoreArea>>) => htOut = "HTCLIENT"
        /\ At(400, 300) => htOut = "HTCLIENT"

\* C11 witness: (400,16) under the ignore area, classified as client area
C11_Witness ==
    /\ HtDone
    /\ IsScenario
    /\ ~htIn.maximized
    /\ At(400, 16)
    /\ htIn.wd.ignoreAreas = <<ScenarioIgnoreArea>>
    /\ htOut = "HTCLIENT"

\* C12 as stated: in the maximized window of the scenario without areas,
\* (400,16) is title bar and (4,4) is client area.
C12_MaximizedScenario ==
    (HtDone /\ IsScenario /\ htIn.maximized /\ htIn.wd.ignoreAreas = <<>>) =>
        /\ At(400, 16) => htOut = "HTCAPTION"
        /\ At(4, 4) => htOut = "HTCLIENT"

\* C12 amended: in the maximized window of the scenario without areas,
\* (400,16) is title bar and (4,4), which lies in the title strip, is title
\* bar too: not a corner, and not client area.
C12_MaximizedScenarioCaption ==
    (HtDone /\ IsScenario /\ htIn.maximized /\ htIn.wd.ignoreAreas = <<>>) =>
        /\ At(400, 16) => htOut = "HTCAPTION"
        /\ At(4, 4) => htOut = "HTCAPTION"

\* C12 witness: (4,4) in the maximized window, classified as title bar
C12_Witness ==
    /\ HtDone
    /\ IsScenario
    /\ htIn.maximized
    /\ htIn.wd.ignoreAreas = <<>>
    /\ At(4, 4)
    /\ htOut = "HTCAPTION"

----------------------------------------------------------------------------
(* The hit test under integer display scales                               *)

ScaleWindowData ==
    {[DefaultWindowData EXCEPT !.borderWidth = bw, !.borderHeight = bh] :
        bw \in 0..3, bh \in 0..2}

\* the unscaled window and pointer position, at 96 DPI
ScaleBaseInputs ==
    [hwnd : {1}, ww : {5, 8}, wh : {6}, x : -1..9, y : -1..7,
     wd : ScaleWindowData,
     env : [dpi : {USER_DEFAULT_SCREEN_DPI}, policy : {"Round", "PassThrough"}, hasMetricsForDpi : BOOLEAN],
     maximized : BOOLEAN]

\* the same window on a display of scale k: client size and pointer position
\* in physical pixels, window DPI 96 * k
ScaleInput(base, k) ==
    [base EXCEPT !.ww = k * @, !.wh = k * @, !.x = k * @, !.y = k * @,
                 !.env.dpi = k * USER_DEFAULT_SCREEN_DPI]

InitScale ==
    /\ component = "hittest"
    /\ FilterIdle
    /\ platform = [dwm |-> TRUE, theme |-> TRUE]
    /\ ManagerIdle
    /\ pureQt = FALSE
    /\ \E base \in ScaleBaseInputs, k \in 1..MaxScale : htIn = ScaleInput(base, k)
    /\ htOut = "none"

SpecScale == InitScale /\ [][NextHitTest]_vars

\* the scale and the unscaled input of the drawn input
ScaleOf == htIn.env.dpi \div USER_DEFAULT_SCREEN_DPI
BaseOf ==
    [htIn EXCEPT !.ww = @ \div ScaleOf, !.wh = @ \div ScaleOf, !.x = @ \div ScaleOf,
                 !.y = @ \div ScaleOf, !.env.dpi = USER_DEFAULT_SCREEN_DPI]

\* the edge or corner a result names, "none" for title bar and client area
EdgeOf(r) == IF r \in EdgeCodes THEN r ELSE "none"

\* C13: for every integer scale k >= 1 the edge / corner classification of
\* (k*x, k*y) in a (k*w, k*h) client at window DPI 96*k, the border
\* thresholds being scaled by the code, equals the classification of (x, y)
\* in (w, h) at 96 DPI.
C13_EdgeScaleInvariant ==
    (HtDone /\ ScaleInput(BaseOf, ScaleOf) = htIn) =>
        EdgeOf(htOut) = EdgeOf(getHTResult(BaseOf))

\* C13 witness: scale 3, a border override, a position in the right band
C13_Witness ==
    /\ HtDone
    /\ ScaleOf = 3
    /\ ~htIn.maximized
    /\ htIn.wd.borderWidth = 2
    /\ htIn.wd.borderHeight = 1
    /\ ScaleInput(BaseOf, ScaleOf) = htIn
    /\ BaseOf.x = BaseOf.ww - 1
    /\ BaseOf.y = 3
    /\ htOut = "HTRIGHT"

----------------------------------------------------------------------------
(* The scale factor on drawn DPIs                                          *)

\* DPIs of 100% .. 300% in steps of 25%
DpiValues == {96, 120, 144, 168, 192, 216, 240, 264, 288}

DprInputs == [hwnd : {NULL, 1}, dpi : DpiValues, sysDpi : DpiValues, policy : RoundingPolicies]

InitDpr ==
    /\ component = "dpr"
    /\ FilterIdle
    /\ platform = [dwm |-> TRUE, theme |-> TRUE]
    /\ ManagerIdle
    /\ pureQt = FALSE
    /\ htIn \in DprInputs
    /\ htOut = [done |-> FALSE, dpi |-> 0, dpr96 |-> 0]

\* getDpiForWindow(handle) and getDprForWindow(handle) for the drawn handle
DprQuery ==
    /\ component = "dpr"
    /\ ~htOut.done
    /\ htOut' = [done |-> TRUE,
                 dpi |-> getDpiForWindow(htIn.hwnd, htIn.dpi, htIn.sysDpi),
                 dpr96 |-> getDprForWindow(htIn.hwnd, htIn.dpi, htIn.policy)]
    /\ UNCHANGED <<component, filterVars, managerVars, htIn>>

NextDpr == DprQuery

SpecDpr == InitDpr /\ [][NextDpr]_vars

\* policy(dpi / 96) as a numerator over 96
PolicyOf(policy, dpi) ==
    CASE policy = "PassThrough" -> dpi
      [] policy = "Floor" -> 96 * (dpi \div 96)
      [] policy = "Ceil" -> 96 * ((dpi + 95) \div 96)
      [] OTHER -> 96 * ((dpi + 48) \div 96)

\* C14 as stated: the scale factor of a window, and of no window (the
\* process), is policy(dpi / 96) of its effective DPI, and under a fixed
\* policy a larger DPI never gives a smaller scale factor.
C14_ScaleFactorIsPolicyOfDpi ==
    (component = "dpr" /\ htOut.done) =>
        /\ htOut.dpr96 = PolicyOf(htIn.policy, htOut.dpi)
        /\ \A d \in DpiValues :
              d >= htIn.dpi => getDprForWindow(htIn.hwnd, d, htIn.policy) >= htOut.dpr96

\* C34 as stated: for every window DPI and rounding policy the DPI passed to
\* the DPI-aware system-metric query is 96 times the scale factor that
\* getDprForWindow returns for the window.
C34_MetricDpiMatchesScaleFactor ==
    (component = "dpr" /\ htOut.done /\ htIn.hwnd # NULL) =>
        MetricQueryDpi(htOut.dpi, htIn.policy) = htOut.dpr96

----------------------------------------------------------------------------
(* Frame query (WM_NCCALCSIZE)                                             *)

RECT(l, t, r, b) == [left |-> l, top |-> t, right |-> r, bottom |-> b]

\* mutant: the correction always lands on the bottom edge
AdjustForAppBar_BottomOnly(rc, edge) == [rc EXCEPT !.bottom = @ - 1]

\* the one-pixel correction on the edge that hosts an auto-hide taskbar
AdjustForAppBar(rc, edge) ==
    CASE edge = "ABE_BOTTOM" -> [rc EXCEPT !.bottom = @ - 1]
      [] edge = "ABE_LEFT" -> [rc EXCEPT !.left = @ + 1]
      [] edge = "ABE_TOP" -> [rc EXCEPT !.top = @ + 1]
      [] edge = "ABE_RIGHT" -> [rc EXCEPT !.right = @ - 1]
      [] OTHER -> rc

\* mutant: the work area is substituted whether or not the window is maximized
NcCalcSize_AnyState(in) ==
    LET sub == in.wParam /\ in.hasMonitor
        appbar == in.rcWork = in.rcMonitor /\ in.autoHide /\ in.trayFound /\ in.sameMonitor
        rc == IF ~sub THEN in.rect
              ELSE IF appbar THEN AdjustForAppBar(in.rcWork, in.edge) ELSE in.rcWork
    IN [done |-> TRUE, handled |-> TRUE, result |-> 0, rect |-> rc]

\* case WM_NCCALCSIZE.  in: [wParam, maximized, hasMonitor, rect, rcWork,
\* rcMonitor, autoHide, trayFound, sameMonitor, edge]
NcCalcSize(in) ==
    LET sub == in.wParam /\ in.maximized /\ in.hasMonitor
        appbar == in.rcWork = in.rcMonitor /\ in.autoHide /\ in.trayFound /\ in.sameMonitor
        rc == IF ~sub THEN in.rect
              ELSE IF appbar THEN AdjustForAppBar(in.rcWork, in.edge) ELSE in.rcWork
    IN [done |-> TRUE, handled |-> TRUE, result |-> 0, rect |-> rc]

MonitorRect == RECT(0, 0, 8, 6)
AppBarEdges == {"ABE_LEFT", "ABE_TOP", "ABE_RIGHT", "ABE_BOTTOM"}

NcCalcSizeInputs ==
    [wParam : BOOLEAN, maximized : BOOLEAN, hasMonitor : BOOLEAN,
     rect : {RECT(1, 1, 5, 4), RECT(-1, -1, 9, 7)},
     rcWork : {MonitorRect, RECT(0, 0, 8, 5)}, rcMonitor : {MonitorRect},
     autoHide : BOOLEAN, trayFound : BOOLEAN, sameMonitor : BOOLEAN, edge : AppBarEdges]

InitNcCalcSize ==
    /\ component = "nccalcsize"
    /\ FilterIdle
    /\ platform = [dwm |-> TRUE, theme |-> TRUE]
    /\ ManagerIdle
    /\ pureQt = FALSE
    /\ htIn \in NcCalcSizeInputs
    /\ htOut = [done |-> FALSE, handled |-> FALSE, result |-> 0, rect |-> htIn.rect]

\* WM_NCCALCSIZE for a managed window
NcCalcSizeQuery ==
    /\ component = "nccalcsize"
    /\ ~htOut.done
    /\ htOut' = NcCalcSize(htIn)
    /\ UNCHANGED <<component, filterVars, managerVars, htIn>>

NextNcCalcSize == NcCalcSizeQuery

SpecNcCalcSize == InitNcCalcSize /\ [][NextNcCalcSize]_vars

\* C20: WM_NCCALCSIZE of a managed window is reported handled with result 0
\* for both values of wParam, maximized or not, and for a window that is not
\* maximized the proposed rectangle comes back as it was received.
C20_FrameQueryHandled ==
    (component = "nccalcsize" /\ htOut.done) =>
        /\ htOut.handled
        /\ htOut.result = 0
        /\ ~htIn.maximized => htOut.rect = htIn.rect

\* C20 witness: wParam TRUE, not maximized, a monitor whose work area is the
\* whole monitor with an auto-hide taskbar on it, the rectangle untouched
C20_Witness ==
    /\ component = "nccalcsize"
    /\ htOut.done
    /\ htIn.wParam /\ ~htIn.maximized /\ htIn.hasMonitor
    /\ htIn.rcWork = htIn.rcMonitor
    /\ htIn.autoHide /\ htIn.trayFound /\ htIn.sameMonitor
    /\ htIn.rect # htIn.rcWork
    /\ htOut.rect = htIn.rect
    /\ htOut.handled

\* the sides of a rectangle that differ between two rectangles
ChangedSides(a, b) == {f \in {"left", "top", "right", "bottom"} : a[f] # b[f]}

\* the side of the rectangle that an appbar edge names
SideOfEdge(edge) ==
    CASE edge = "ABE_BOTTOM" -> "bottom"
      [] edge = "ABE_LEFT" -> "left"
      [] edge = "ABE_TOP" -> "top"
      [] edge = "ABE_RIGHT" -> "right"

\* how far side f of rectangle b lies inside rectangle a
Inward(a, b, f) == IF f \in {"left", "top"} THEN b[f] - a[f] ELSE a[f] - b[f]

\* the taskbar auto-hides and its window sits on the monitor of the queried window
AutoHideOnSameMonitor(in) == in.autoHide /\ in.trayFound /\ in.sameMonitor

\* what C21 says of the rectangle reported for a maximized window
WorkAreaReported ==
    IF htIn.rcWork = htIn.rcMonitor /\ AutoHideOnSameMonitor(htIn)
    THEN /\ ChangedSides(htIn.rcWork, htOut.rect) = {SideOfEdge(htIn.edge)}
         /\ Inward(htIn.rcWork, htOut.rect, SideOfEdge(htIn.edge)) = 1
    ELSE htOut.rect = htIn.rcWork

\* C21 as stated: every WM_NCCALCSIZE of a maximized window reports the
\* monitor's work area, moved inward by one pixel on the taskbar's edge when
\* the work area is the whole monitor and the taskbar auto-hides on it.
C21_MaximizedReportsWorkArea ==
    (component = "nccalcsize" /\ htOut.done /\ htIn.maximized) => WorkAreaReported

\* C21: a WM_NCCALCSIZE with wParam TRUE of a maximized window whose monitor
\* is resolved reports the monitor's work area; when the work area equals the
\* monitor rectangle and the taskbar auto-hides on that monitor exactly the
\* taskbar's edge is moved inward by exactly one pixel, otherwise the
\* rectangle is the work area exactly.
C21_MaximizedReportsWorkAreaOnValidRects ==
    (component = "nccalcsize" /\ htOut.done /\ htIn.maximized
        /\ htIn.wParam /\ htIn.hasMonitor) => WorkAreaReported

\* C21 witness: maximized, wParam TRUE, work area the whole monitor, taskbar
\* auto-hiding on the left edge of that monitor, left edge moved in by one
C21_Witness ==
    /\ component = "nccalcsize"
    /\ htOut.done
    /\ htIn.maximized /\ htIn.wParam /\ htIn.hasMonitor
    /\ htIn.rcWork = htIn.rcMonitor
    /\ AutoHideOnSameMonitor(htIn)
    /\ htIn.edge = "ABE_LEFT"
    /\ htOut.rect = [htIn.rcWork EXCEPT !.left = @ + 1]

----------------------------------------------------------------------------
(* Change notifications: composition and theming switch while windows are  *)
(* managed, the toolkit shows windows, windows gain and lose activation    *)

PlatformStates == [dwm : BOOLEAN, theme : BOOLEAN]

\* the user switches desktop composition or visual styles on or off; what
\* DwmIsCompositionEnabled and IsThemeActive report from then on
PlatformChange(p) ==
    /\ Idle
    /\ component = "notify"
    /\ p # platform
    /\ platform' = p
    /\ UNCHANGED <<component, m_framelessWindows, instance, userData, style, lastOp, trace, managerVars, hitTestVars>>

\* the toolkit shows the window: WS_VISIBLE is set in GWL_STYLE
ShowWindow(h) ==
    /\ Idle
    /\ component = "notify"
    /\ style[h] # SetVisible(style[h])
    /\ style' = [style EXCEPT ![h] = SetVisible(@)]
    /\ UNCHANGED <<component, m_framelessWindows, instance, userData, lastOp, trace, platform, managerVars, hitTestVars>>

\* the system delivers WM_NCACTIVATE with wParam = active to window hwnd
Activate(hwnd, active) ==
    /\ Idle
    /\ component = "notify"
    /\ Commit(WndProc(Start, Ctx(m_framelessWindows, instance), hwnd, "WM_NCACTIVATE"))
    /\ lastOp' = Op("activate", hwnd, [active |-> active], "WM_NCACTIVATE", instance)
    /\ UNCHANGED <<component, m_framelessWindows, instance, platform, managerVars, hitTestVars>>

InitNotify ==
    /\ component = "notify"
    /\ FilterIdle
    /\ platform \in PlatformStates
    /\ ManagerIdle
    /\ pureQt = FALSE
    /\ HitTestIdle

NextNotify ==
    \/ Install
    \/ \E w \in HWNDs, d \in DataChoices : AddFramelessWindow(w, d)
    \/ \E h \in HWNDs, m \in Messages \ {"WM_NCACTIVATE"} : Message(h, m)
    \/ \E h \in HWNDs, a \in BOOLEAN : Activate(h, a)
    \/ \E p \in PlatformStates : PlatformChange(p)
    \/ \E h \in HWNDs : ShowWindow(h)
    \/ Return

SpecNotify == InitNotify /\ [][NextNotify]_vars

\* the filter handled message m of window h in the call that just returned
Handled(h, m) ==
    /\ component = "notify"
    /\ lastOp.op \in {"message", "activate"}
    /\ lastOp.hwnd = h
    /\ lastOp.msg = m
    /\ HasEvent(trace, "filter", h, m, TRUE)

\* the step delivers message m to window h, which the installed filter
\* manages and has initialized before
DeliversToInitialized(h, m) ==
    /\ component = "notify"
    /\ lastOp.op = "none"
    /\ lastOp'.op = "message"
    /\ lastOp'.hwnd = h
    /\ lastOp'.msg = m
    /\ instance
    /\ PassesGate(m_framelessWindows, h)
    /\ userData[h] # NullPtr
    /\ userData[h].inited

\* C22: after WM_DWMCOMPOSITIONCHANGED is handled the cached composition
\* flag equals what the platform reports; non-client rendering and the frame
\* extension are requested exactly when composition is enabled; blur is
\* applied only when it was requested and composition is enabled; a
\* frame-changed refresh is issued whether composition is enabled or not.
C22_CompositionChangeReprobes ==
    \A h \in HWNDs :
        Handled(h, "WM_DWMCOMPOSITIONCHANGED") =>
            /\ userData[h].dwmCompositionEnabled = platform.dwm
            /\ HasKind(trace, "ncrendering", h) <=> platform.dwm
            /\ HasKind(trace, "extendframe", h) <=> platform.dwm
            /\ HasKind(trace, "blur", h) => (userData[h].windowData.blurEnabled /\ platform.dwm)
            /\ HasKind(trace, "refresh", h)

\* C22 witness: a window initialized earlier, with theming cached as active,
\* handles the notification after composition was switched off: no rendering
\* request, a refresh
C22_Witness ==
    /\ Handled(1, "WM_DWMCOMPOSITIONCHANGED")
    /\ ~HasKind(trace, "init", 1)
    /\ ~platform.dwm
    /\ userData[1].themeEnabled
    /\ ~userData[1].dwmCompositionEnabled
    /\ ~HasKind(trace, "ncrendering", 1)
    /\ HasKind(trace, "refresh", 1)

\* a refresh at position i of the trace runs to the default handling of the
\* WM_SIZE it sends; no initialization and no other refresh starts before that
RefreshIsFlat(tr, i) ==
    \E j \in (i + 1)..Len(tr) :
        /\ tr[j] = Event("default", tr[i].hwnd, "WM_SIZE", FALSE)
        /\ \A k \in (i + 1)..j : tr[k].ev \notin {"refresh", "init"}

\* C36: handling one message ends after a bounded chain of re-entered
\* messages: no refresh is issued and no initialization runs while the
\* messages of a refresh are being handled, a window is initialized at most
\* once and refreshed at most twice (by init and by the handler of the
\* message), and the filter is entered once for the message and three times
\* for every refresh.
C36_RefreshChainIsFinite ==
    [][(component = "notify" /\ lastOp'.op \in {"message", "activate"}) =>
        /\ \A i \in 1..Len(trace') : trace'[i].ev = "refresh" => RefreshIsFlat(trace', i)
        /\ \A h \in HWNDs :
              /\ CountKind(trace', "init", h) <= 1
              /\ CountKind(trace', "refresh", h) <= 2
              /\ CountKind(trace', "filter", h) <= 1 + 3 * CountKind(trace', "refresh", h)
              /\ (HasKind(trace', "init", h) /\ userData'[h] # NullPtr) => userData'[h].inited]_vars

\* C36 witness: WM_DWMCOMPOSITIONCHANGED reached a window not yet initialized:
\* init refreshed, the handler refreshed again, seven passes through the filter
C36_Witness ==
    /\ Handled(1, "WM_DWMCOMPOSITIONCHANGED")
    /\ CountKind(trace, "init", 1) = 1
    /\ CountKind(trace, "refresh", 1) = 2
    /\ CountKind(trace, "filter", 1) = 7
    /\ HasEvent(trace, "filter", 1, "WM_WINDOWPOSCHANGED", FALSE)
    /\ trace[Len(trace)] = Event("filter", 1, "WM_DWMCOMPOSITIONCHANGED", TRUE)

\* the call that just returned passed message m of window h through the
\* installed filter
Filtered(h, m) ==
    /\ component = "notify"
    /\ lastOp.op = "message"
    /\ lastOp.hwnd = h
    /\ lastOp.msg = m
    /\ \E b \in BOOLEAN : HasEvent(trace, "filter", h, m, b)

\* C37: WM_NCPAINT of a managed window is handled, and kept from default
\* handling, exactly when the composition flag cached in the window's record
\* is false, and goes on to default handling exactly when it is true;
\* WM_NCUAHDRAWCAPTION and WM_NCUAHDRAWFRAME are handled and kept from default
\* handling whatever the flag is.
C37_NcPaintFollowsCachedFlag ==
    \A h \in HWNDs :
        /\ Filtered(h, "WM_NCPAINT") =>
              /\ HasEvent(trace, "filter", h, "WM_NCPAINT", TRUE)
                    <=> ~userData[h].dwmCompositionEnabled
              /\ HasEvent(trace, "default", h, "WM_NCPAINT", FALSE)
                    <=> userData[h].dwmCompositionEnabled
        /\ \A m \in {"WM_NCUAHDRAWCAPTION", "WM_NCUAHDRAWFRAME"} :
              Filtered(h, m) =>
                  /\ HasEvent(trace, "filter", h, m, TRUE)
                  /\ ~HasEvent(trace, "default", h, m, FALSE)

\* C37 witness: composition was switched on after the window was initialized
\* with it off; WM_NCPAINT is still blocked
C37_Witness ==
    /\ Handled(1, "WM_NCPAINT")
    /\ ~HasKind(trace, "init", 1)
    /\ platform.dwm
    /\ ~userData[1].dwmCompositionEnabled
    /\ ~HasKind(trace, "default", 1)

\* C23: WM_THEMECHANGED for an initialized managed window rewrites the cached
\* theme flag and nothing else: the other fields of the record, the records
\* of other windows, the styles, the list and the installed filter are the
\* same, no refresh is issued and the message goes on to default handling.
C23_ThemeChangeOnlyFlag ==
    [][\A h \in HWNDs :
        DeliversToInitialized(h, "WM_THEMECHANGED") =>
            /\ userData' = [userData EXCEPT ![h].themeEnabled = platform.theme]
            /\ style' = style
            /\ m_framelessWindows' = m_framelessWindows
            /\ instance' = instance
            /\ ~HasKind(trace', "refresh", h)
            /\ HasEvent(trace', "filter", h, "WM_THEMECHANGED", FALSE)
            /\ HasEvent(trace', "default", h, "WM_THEMECHANGED", FALSE)]_vars

\* C23 witness: the notification reached a window initialized earlier while
\* theming is off and composition on; the two cached flags now differ
C23_Witness ==
    /\ component = "notify"
    /\ lastOp.op = "message" /\ lastOp.msg = "WM_THEMECHANGED" /\ lastOp.hwnd = 1
    /\ HasEvent(trace, "filter", 1, "WM_THEMECHANGED", FALSE)
    /\ ~HasKind(trace, "init", 1)
    /\ ~platform.theme /\ platform.dwm
    /\ ~userData[1].themeEnabled
    /\ userData[1].dwmCompositionEnabled
    /\ userData[1].windowData.blurEnabled

IconTextMessages == {"WM_SETICON", "WM_SETTEXT"}

C25_ActivationRepaintsBorder ==
    \A h \in HWNDs :
        Handled(h, "WM_NCACTIVATE") =>
            /\ HasEvent(trace, "default", h, "WM_NCACTIVATE", FALSE)
            /\ HasKind(trace, "ncrepaint", h)

\* C25: WM_NCACTIVATE of a managed window goes to default handling with the
\* update region -1, which keeps default handling from repainting the
\* border, and is reported handled; the same on activation and deactivation.
C25_ActivationSkipsBorderRepaint ==
    \A h \in HWNDs :
        Handled(h, "WM_NCACTIVATE") =>
            /\ HasEvent(trace, "default", h, "WM_NCACTIVATE", FALSE)
            /\ ~HasKind(trace, "ncrepaint", h)

\* C25 witness: a managed window handled its deactivation
C25_Witness ==
    /\ Handled(1, "WM_NCACTIVATE")
    /\ lastOp.data = [active |-> FALSE]
    /\ ~HasKind(trace, "init", 1)
    /\ HasEvent(trace, "default", 1, "WM_NCACTIVATE", FALSE)

----------------------------------------------------------------------------
(* Min/max constraint query (WM_GETMINMAXINFO)                             *)

POINT(x, y) == [x |-> x, y |-> y]
qAbs(v) == IF v >= 0 THEN v ELSE -v

\* QSize::isEmpty
SizeIsEmpty(size) == size.w < 1 \/ size.h < 1

\* mutant: the maximize position is the monitor origin on every release
GetMinMaxInfo_MonitorOrigin(in) ==
    IF ~in.hasMonitor
    THEN [done |-> TRUE, handled |-> FALSE, result |-> in.result, mmi |-> in.mmi]
    ELSE LET dpr == getDprForWindow(in.hwnd, in.dpi, in.policy)
             maxSize == POINT(qAbs(in.rcWork.right - in.rcWork.left),
                              qAbs(in.rcWork.bottom - in.rcWork.top))
             minTrack == IF ~SizeIsEmpty(in.minimumSize)
                         THEN POINT(ScaleInt(in.minimumSize.w, dpr), ScaleInt(in.minimumSize.h, dpr))
                         ELSE in.mmi.ptMinTrackSize
         IN [done |-> TRUE, handled |-> TRUE, result |-> 0,
             mmi |-> [ptMaxPosition |-> POINT(in.rcMonitor.left, in.rcMonitor.top),
                      ptMaxSize |-> maxSize,
                      ptMaxTrackSize |-> maxSize,
                      ptMinTrackSize |-> minTrack]]

\* case WM_GETMINMAXINFO.  in: [hwnd, hasMonitor, rcWork, rcMonitor,
\* afterWindows7, minimumSize, dpi, policy, mmi, result]
GetMinMaxInfo(in) ==
    IF ~in.hasMonitor
    THEN [done |-> TRUE, handled |-> FALSE, result |-> in.result, mmi |-> in.mmi]
    ELSE LET dpr == getDprForWindow(in.hwnd, in.dpi, in.policy)
             maxPos == IF in.afterWindows7
                       THEN POINT(qAbs(in.rcWork.left - in.rcMonitor.left),
                                  qAbs(in.rcWork.top - in.rcMonitor.top))
                       ELSE POINT(in.rcMonitor.left, in.rcMonitor.top)
             maxSize == POINT(qAbs(in.rcWork.right - in.rcWork.left),
                              qAbs(in.rcWork.bottom - in.rcWork.top))
             minTrack == IF ~SizeIsEmpty(in.minimumSize)
                         THEN POINT(ScaleInt(in.minimumSize.w, dpr), ScaleInt(in.minimumSize.h, dpr))
                         ELSE in.mmi.ptMinTrackSize
         IN [done |-> TRUE, handled |-> TRUE, result |-> 0,
             mmi |-> [ptMaxPosition |-> maxPos,
                      ptMaxSize |-> maxSize,
                      ptMaxTrackSize |-> maxSize,
                      ptMinTrackSize |-> minTrack]]

\* a primary monitor and one to its right, each with the taskbar hidden, on
\* the left, on the top or on the bottom
MinMaxMonitors ==
    {[rcMonitor |-> RECT(0, 0, 8, 6), rcWork |-> RECT(0, 0, 8, 6)],
     [rcMonitor |-> RECT(0, 0, 8, 6), rcWork |-> RECT(1, 0, 8, 6)],
     [rcMonitor |-> RECT(0, 0, 8, 6), rcWork |-> RECT(0, 1, 8, 6)],
     [rcMonitor |-> RECT(0, 0, 8, 6), rcWork |-> RECT(0, 0, 8, 5)],
     [rcMonitor |-> RECT(8, 0, 16, 6), rcWork |-> RECT(8, 0, 16, 6)],
     [rcMonitor |-> RECT(8, 0, 16, 6), rcWork |-> RECT(9, 0, 16, 6)],
     [rcMonitor |-> RECT(8, 0, 16, 6), rcWork |-> RECT(8, 1, 16, 6)]}

\* the MINMAXINFO the system passes in
ReceivedMinMaxInfo ==
    [ptMaxPosition |-> POINT(-1, -1), ptMaxSize |-> POINT(10, 8),
     ptMaxTrackSize |-> POINT(12, 10), ptMinTrackSize |-> POINT(3, 2)]

MinimumSizes == {Size(w, h) : w \in {0, 200}, h \in {0, 100}}
MinMaxDpis == {96, 120, 192}

MinMaxInputs ==
    {[hwnd |-> 1, hasMonitor |-> hm, rcWork |-> mon.rcWork, rcMonitor |-> mon.rcMonitor,
      afterWindows7 |-> os, minimumSize |-> ms, dpi |-> d, policy |-> pol,
      mmi |-> ReceivedMinMaxInfo, result |-> 1] :
        hm \in BOOLEAN, mon \in MinMaxMonitors, os \in BOOLEAN,
        ms \in MinimumSizes, d \in MinMaxDpis, pol \in {"PassThrough", "Round"}}

InitMinMax ==
    /\ component = "minmax"
    /\ FilterIdle
    /\ platform = [dwm |-> TRUE, theme |-> TRUE]
    /\ ManagerIdle
    /\ pureQt = FALSE
    /\ htIn \in MinMaxInputs
    /\ htOut = [done |-> FALSE, handled |-> FALSE, result |-> htIn.result, mmi |-> htIn.mmi]

\* WM_GETMINMAXINFO for a managed window
MinMaxQuery ==
    /\ component = "minmax"
    /\ ~htOut.done
    /\ htOut' = GetMinMaxInfo(htIn)
    /\ UNCHANGED <<component, filterVars, managerVars, htIn>>

NextMinMax == MinMaxQuery

SpecMinMax == InitMinMax /\ [][NextMinMax]_vars

MinMaxDone == component = "minmax" /\ htOut.done

\* minimumSize times the scale factor of the window, as the claims put it
ScaledMinimum(in) ==
    POINT((in.minimumSize.w * PolicyOf(in.policy, in.dpi)) \div 96,
          (in.minimumSize.h * PolicyOf(in.policy, in.dpi)) \div 96)

\* C26 as stated: with a monitor resolved, the minimum tracking size is the
\* scaled minimumSize whenever minimumSize is not 0x0, one zero dimension
\* included, and is left as received only for 0x0.
C26_MinimumInjectedUnlessZeroByZero ==
    (MinMaxDone /\ htIn.hasMonitor) =>
        IF htIn.minimumSize # Size(0, 0)
        THEN htOut.mmi.ptMinTrackSize = ScaledMinimum(htIn)
        ELSE htOut.mmi.ptMinTrackSize = htIn.mmi.ptMinTrackSize

\* what the code does with the minimum size: it is injected when both
\* dimensions are positive and left as received otherwise
C26_MinimumInjectedWhenBothPositive ==
    (MinMaxDone /\ htIn.hasMonitor) =>
        IF htIn.minimumSize.w > 0 /\ htIn.minimumSize.h > 0
        THEN htOut.mmi.ptMinTrackSize = ScaledMinimum(htIn)
        ELSE htOut.mmi.ptMinTrackSize = htIn.mmi.ptMinTrackSize

\* C27: with a monitor resolved the maximize size is the work area's width
\* and height, the maximize position is |work origin - monitor origin| after
\* Windows 7 and the monitor origin up to Windows 7, the maximum tracking
\* size equals the maximize size and the message is handled with result 0;
\* with no monitor nothing is written and the message is not handled.
C27_MaximizeClampedToWorkArea ==
    MinMaxDone =>
        IF htIn.hasMonitor
        THEN /\ htOut.mmi.ptMaxSize = POINT(htIn.rcWork.right - htIn.rcWork.left,
                                            htIn.rcWork.bottom - htIn.rcWork.top)
             /\ htOut.mmi.ptMaxPosition =
                    IF htIn.afterWindows7
                    THEN POINT(qAbs(htIn.rcWork.left - htIn.rcMonitor.left),
                               qAbs(htIn.rcWork.top - htIn.rcMonitor.top))
                    ELSE POINT(htIn.rcMonitor.left, htIn.rcMonitor.top)
             /\ htOut.mmi.ptMaxTrackSize = htOut.mmi.ptMaxSize
             /\ htOut.handled
             /\ htOut.result = 0
        ELSE /\ htOut.mmi = htIn.mmi
             /\ htOut.result = htIn.result
             /\ ~htOut.handled

\* C27 witness: after Windows 7, on the second monitor with the taskbar on
\* its left edge, the maximize position is (1, 0) and the size 7 x 6
C27_Witness ==
    /\ MinMaxDone
    /\ htIn.hasMonitor /\ htIn.afterWindows7
    /\ htIn.rcMonitor = RECT(8, 0, 16, 6)
    /\ htIn.rcWork = RECT(9, 0, 16, 6)
    /\ htOut.mmi.ptMaxPosition = POINT(1, 0)
    /\ htOut.mmi.ptMaxSize = POINT(7, 6)
    /\ htOut.mmi.ptMaxTrackSize = POINT(7, 6)

----------------------------------------------------------------------------
(* DPI resolution over the queries the platform offers                     *)

\* QOperatingSystemVersion::current(), as the releases initDLLs tells apart
OsVersions == {"Windows7", "Windows8_1", "Windows10_1607", "Windows10_1803"}
OsRank(os) ==
    CASE os = "Windows7" -> 0
      [] os = "Windows8_1" -> 1
      [] os = "Windows10_1607" -> 2
      [] OTHER -> 3

DpiQueries == {"GetDpiForWindow", "GetSystemDpiForProcess", "GetDpiForSystem", "GetDpiForMonitor"}

\* initDLLs: the function pointers that are set afterwards.  resolved is the
\* set of symbols QLibrary::resolve finds.
initDLLs(os, resolved) ==
    [m_GetDpiForMonitor |-> OsRank(os) >= 1 /\ "GetDpiForMonitor" \in resolved,
     m_GetDpiForWindow |-> OsRank(os) >= 2 /\ "GetDpiForWindow" \in resolved,
     m_GetDpiForSystem |-> OsRank(os) >= 2 /\ "GetDpiForSystem" \in resolved,
     m_GetSystemDpiForProcess |-> OsRank(os) >= 3 /\ "GetSystemDpiForProcess" \in resolved]

\* what each source reports on the machine of the model
SourceDpi ==
    [window |-> 120, process |-> 144, system |-> 168, monitor |-> 192,
     direct2d |-> 216, deviceContext |-> 240]

\* the lambda getScreenDpi.  scr: [direct2d, deviceContext], whether
\* D2D1CreateFactory succeeds and whether GetDC returns a context
getScreenDpi(scr, defaultValue) ==
    IF scr.direct2d THEN SourceDpi.direct2d
    ELSE IF scr.deviceContext THEN SourceDpi.deviceContext
    ELSE defaultValue

\* mutant: the monitor is asked before the window
getDpiForWindowFrom_MonitorFirst(handle, ptrs, scr) ==
    IF handle = NULL
    THEN IF ptrs.m_GetSystemDpiForProcess THEN SourceDpi.process
         ELSE IF ptrs.m_GetDpiForSystem THEN SourceDpi.system
         ELSE getScreenDpi(scr, USER_DEFAULT_SCREEN_DPI)
    ELSE IF ptrs.m_GetDpiForMonitor THEN SourceDpi.monitor
    ELSE IF ptrs.m_GetDpiForWindow THEN SourceDpi.window
    ELSE getScreenDpi(scr, USER_DEFAULT_SCREEN_DPI)

\* getDpiForWindow with the function pointers and the screen queries given
getDpiForWindowFrom(handle, ptrs, scr) ==
    IF handle = NULL
    THEN IF ptrs.m_GetSystemDpiForProcess THEN SourceDpi.process
         ELSE IF ptrs.m_GetDpiForSystem THEN SourceDpi.system
         ELSE getScreenDpi(scr, USER_DEFAULT_SCREEN_DPI)
    ELSE IF ptrs.m_GetDpiForWindow THEN SourceDpi.window
    ELSE IF ptrs.m_GetDpiForMonitor THEN SourceDpi.monitor
    ELSE getScreenDpi(scr, USER_DEFAULT_SCREEN_DPI)

DpiTierInputs ==
    [hwnd : {NULL, 1}, os : OsVersions, resolved : SUBSET DpiQueries,
     scr : [direct2d : BOOLEAN, deviceContext : BOOLEAN]]

InitDpiTiers ==
    /\ component = "dpitiers"
    /\ FilterIdle
    /\ platform = [dwm |-> TRUE, theme |-> TRUE]
    /\ ManagerIdle
    /\ pureQt = FALSE
    /\ htIn \in DpiTierInputs
    /\ htOut = [done |-> FALSE, ptrs |-> initDLLs("Windows7", {}), dpi |-> 0]

\* initDLLs at start-up, then getDpiForWindow(hwnd)
DpiTierQuery ==
    /\ component = "dpitiers"
    /\ ~htOut.done
    /\ LET ptrs == initDLLs(htIn.os, htIn.resolved)
       IN htOut' = [done |-> TRUE, ptrs |-> ptrs,
                    dpi |-> getDpiForWindowFrom(htIn.hwnd, ptrs, htIn.scr)]
    /\ UNCHANGED <<component, filterVars, managerVars, htIn>>

NextDpiTiers == DpiTierQuery

SpecDpiTiers == InitDpiTiers /\ [][NextDpiTiers]_vars

DpiTiersDone == component = "dpitiers" /\ htOut.done

\* which sources can answer after start-up
TierAvailable(t) ==
    CASE t = "window" -> htOut.ptrs.m_GetDpiForWindow
      [] t = "process" -> htOut.ptrs.m_GetSystemDpiForProcess
      [] t = "system" -> htOut.ptrs.m_GetDpiForSystem
      [] t = "monitor" -> htOut.ptrs.m_GetDpiForMonitor
      [] t = "direct2d" -> htIn.scr.direct2d
      [] t = "deviceContext" -> htIn.scr.deviceContext

RECURSIVE FirstAvailable(_, _)
\* the value of the first available source of order[i..], 96 when none is
FirstAvailable(order, i) ==
    IF i > Len(order) THEN 96
    ELSE IF TierAvailable(order[i]) THEN SourceDpi[order[i]]
    ELSE FirstAvailable(order, i + 1)

\* C30 as stated: the DPI of a window is the value of the first available
\* source in the order per-window, per-process, per-system, per-monitor,
\* device-context fallback, 96, whatever sources are available.
C30_OneOrderForWindows ==
    (DpiTiersDone /\ htIn.hwnd # NULL) =>
        htOut.dpi = FirstAvailable(<<"window", "process", "system", "monitor",
                                     "direct2d", "deviceContext">>, 1)

\* C30: the DPI of a window is the value of the first available source in
\* the order per-window, per-monitor, Direct2D desktop DPI, screen device
\* context, 96; with no window the order is per-process, per-system, Direct2D
\* desktop DPI, screen device context, 96.
C30_OrderDependsOnHandle ==
    DpiTiersDone =>
        htOut.dpi = IF htIn.hwnd # NULL
                    THEN FirstAvailable(<<"window", "monitor", "direct2d", "deviceContext">>, 1)
                    ELSE FirstAvailable(<<"process", "system", "direct2d", "deviceContext">>, 1)

\* C30 witness: a window on a release where the per-window query did not
\* resolve while the per-system and per-monitor queries did: the monitor's
\* DPI is the answer
C30_Witness ==
    /\ DpiTiersDone
    /\ htIn.hwnd # NULL
    /\ ~htOut.ptrs.m_GetDpiForWindow
    /\ htOut.ptrs.m_GetDpiForSystem
    /\ htOut.ptrs.m_GetDpiForMonitor
    /\ htOut.dpi = SourceDpi.monitor

----------------------------------------------------------------------------
(* DPI resolution when a query that is available does not resolve          *)

\* getDpiForWindow with the outcome of the queries given.  fails: [window,
\* monitor]: GetDpiForWindow returns 0 for the handle; GetDpiForMonitor
\* returns a failure status and leaves dpiX as initialized
getDpiForWindowOutcome(handle, ptrs, scr, fails) ==
    IF handle = NULL
    THEN IF ptrs.m_GetSystemDpiForProcess THEN SourceDpi.process
         ELSE IF ptrs.m_GetDpiForSystem THEN SourceDpi.system
         ELSE getScreenDpi(scr, USER_DEFAULT_SCREEN_DPI)
    ELSE IF ptrs.m_GetDpiForWindow
         THEN IF fails.window THEN 0 ELSE SourceDpi.window
    ELSE IF ptrs.m_GetDpiForMonitor
         THEN IF fails.monitor THEN USER_DEFAULT_SCREEN_DPI ELSE SourceDpi.monitor
    ELSE getScreenDpi(scr, USER_DEFAULT_SCREEN_DPI)

InitDpiOutcome ==
    /\ component = "dpioutcome"
    /\ FilterIdle
    /\ platform = [dwm |-> TRUE, theme |-> TRUE]
    /\ ManagerIdle
    /\ pureQt = FALSE
    /\ htIn \in [hwnd : {NULL, 1}, os : OsVersions, resolved : SUBSET DpiQueries,
                  scr : [direct2d : BOOLEAN, deviceContext : BOOLEAN],
                  fails : [window : BOOLEAN, monitor : BOOLEAN]]
    /\ htOut = [done |-> FALSE, ptrs |-> initDLLs("Windows7", {}), dpi |-> 0]

\* initDLLs at start-up, then getDpiForWindow(hwnd)
DpiOutcomeQuery ==
    /\ component = "dpioutcome"
    /\ ~htOut.done
    /\ LET ptrs == initDLLs(htIn.os, htIn.resolved)
       IN htOut' = [done |-> TRUE, ptrs |-> ptrs,
                    dpi |-> getDpiForWindowOutcome(htIn.hwnd, ptrs, htIn.scr, htIn.fails)]
    /\ UNCHANGED <<component, filterVars, managerVars, htIn>>

SpecDpiOutcome == InitDpiOutcome /\ [][DpiOutcomeQuery]_vars

\* the tiers of a window handle that are available and resolve
TierResolves(t) ==
    CASE t = "window" -> htOut.ptrs.m_GetDpiForWindow /\ ~htIn.fails.window
      [] t = "monitor" -> htOut.ptrs.m_GetDpiForMonitor /\ ~htIn.fails.monitor
      [] t = "direct2d" -> htIn.scr.direct2d
      [] t = "deviceContext" -> htIn.scr.deviceContext

RECURSIVE FirstResolving(_, _)
FirstResolving(order, i) ==
    IF i > Len(order) THEN 96
    ELSE IF TierResolves(order[i]) THEN SourceDpi[order[i]]
    ELSE FirstResolving(order, i + 1)

\* C31 as stated: a query that is available but does not resolve for the
\* window is passed over for the next tier, and the DPI of a window handle
\* is never 0.
C31_FailedQueryFallsThrough ==
    (component = "dpioutcome" /\ htOut.done /\ htIn.hwnd # NULL) =>
        /\ htOut.dpi # 0
        /\ htOut.dpi = FirstResolving(<<"window", "monitor", "direct2d", "deviceContext">>, 1)

----------------------------------------------------------------------------
(* FramelessHelperQt::eventFilter on one event                             *)

NoEffects == [consumed |-> FALSE, resize |-> <<>>, cursor |-> "untouched", themeNotified |-> FALSE]

\* mutant: any mouse button starts a resize
eventFilter_AnyButton(in) ==
    IF in.isThemeChangeEvent THEN [NoEffects EXCEPT !.themeNotified = TRUE]
    ELSE IF ~in.isWindowType THEN NoEffects
    ELSE IF in.type \notin {"MouseButtonPress", "MouseMove"} THEN NoEffects
    ELSE IF ~in.registered THEN NoEffects
    ELSE IF in.isWindowFixedSize THEN NoEffects
    ELSE IF in.type = "MouseMove"
         THEN IF in.dontTouchCursorShape THEN NoEffects
              ELSE [NoEffects EXCEPT !.cursor = IF in.cursorShape = "ArrowCursor"
                                                 THEN "unset" ELSE in.cursorShape]
    ELSE IF in.edges = {} THEN NoEffects
    ELSE [NoEffects EXCEPT !.consumed = TRUE,
                           !.resize = <<[edges |-> in.edges, pos |-> in.globalPos]>>]

\* FramelessHelperQt::eventFilter.  in: the event and what the helper table,
\* calculateCursorShape and calculateWindowEdges give for it; the result is
\* the return value and the calls made (startSystemResize, setCursor /
\* unsetCursor, notifySystemThemeHasChangedOrNot)
eventFilter(in) ==
    IF in.isThemeChangeEvent THEN [NoEffects EXCEPT !.themeNotified = TRUE]
    ELSE IF ~in.isWindowType THEN NoEffects
    ELSE IF in.type \notin {"MouseButtonPress", "MouseMove"} THEN NoEffects
    ELSE IF ~in.registered THEN NoEffects
    ELSE IF in.isWindowFixedSize THEN NoEffects
    ELSE IF in.type = "MouseMove"
         THEN IF in.dontTouchCursorShape THEN NoEffects
              ELSE [NoEffects EXCEPT !.cursor = IF in.cursorShape = "ArrowCursor"
                                                 THEN "unset" ELSE in.cursorShape]
    ELSE IF in.button # "LeftButton" THEN NoEffects
    ELSE IF in.edges = {} THEN NoEffects
    ELSE [NoEffects EXCEPT !.consumed = TRUE,
                           !.resize = <<[edges |-> in.edges, pos |-> in.globalPos]>>]

InitEventFilter ==
    /\ component = "eventfilter"
    /\ FilterIdle
    /\ platform = [dwm |-> TRUE, theme |-> TRUE]
    /\ ManagerIdle
    /\ pureQt = TRUE
    /\ htIn \in [isThemeChangeEvent : BOOLEAN, isWindowType : BOOLEAN,
                  type : {"MouseButtonPress", "MouseMove", "MouseButtonRelease"},
                  registered : BOOLEAN, isWindowFixedSize : BOOLEAN,
                  dontTouchCursorShape : BOOLEAN,
                  cursorShape : {"ArrowCursor", "SizeHorCursor"},
                  button : {"LeftButton", "RightButton"},
                  edges : {{}, {"LeftEdge"}, {"TopEdge", "LeftEdge"}},
                  globalPos : {POINT(3, 4), POINT(0, 0)}]
    /\ htOut = [done |-> FALSE, r |-> NoEffects]

\* the toolkit passes the event to the filter installed on the window
EventFilterCall ==
    /\ component = "eventfilter"
    /\ ~htOut.done
    /\ htOut' = [done |-> TRUE, r |-> eventFilter(htIn)]
    /\ UNCHANGED <<component, filterVars, managerVars, htIn>>

SpecEventFilter == InitEventFilter /\ [][EventFilterCall]_vars

\* a button press on a window object that is not a theme-change event
IsButtonPress ==
    /\ component = "eventfilter"
    /\ htOut.done
    /\ ~htIn.isThemeChangeEvent
    /\ htIn.isWindowType
    /\ htIn.type = "MouseButtonPress"

\* C32: a button press is consumed exactly when the window is registered and
\* resizable, the button is the primary one and the edge set is non-empty;
\* then startSystemResize is called once with that edge set and the global
\* position; in every other case the press passes through without a call.
C32_PressConsumedIffEdges ==
    IsButtonPress =>
        LET resizes == htIn.registered /\ ~htIn.isWindowFixedSize
                       /\ htIn.button = "LeftButton" /\ htIn.edges # {}
        IN /\ htOut.r.consumed <=> resizes
           /\ resizes => htOut.r.resize = <<[edges |-> htIn.edges, pos |-> htIn.globalPos]>>
           /\ ~resizes => htOut.r.resize = <<>>

\* C32 witness: a primary-button press on the top-left corner of a registered
\* resizable window started one resize and was consumed
C32_Witness ==
    /\ IsButtonPress
    /\ htIn.registered /\ ~htIn.isWindowFixedSize
    /\ htIn.button = "LeftButton"
    /\ htIn.edges = {"TopEdge", "LeftEdge"}
    /\ htOut.r.consumed
    /\ Len(htOut.r.resize) = 1

----------------------------------------------------------------------------
(* FramelessManagerPrivate: the system theme and the override of it         *)

Themes == {"Unknown", "Light", "Dark", "HighContrast"}
\* what Utils::getSystemTheme, the accent colour query and
\* Utils::getDwmColorizationArea report
SystemThemeStates ==
    [systemTheme : Themes \ {"Unknown"}, accentColor : {"blue", "red"},
     colorizationArea : {"None", "All"}]

isThemeOverrided(d) ==
    (IF d.m_overrideTheme = "nullopt" THEN "Unknown" ELSE d.m_overrideTheme) # "Unknown"

systemTheme(d) == IF isThemeOverrided(d) THEN d.m_overrideTheme ELSE d.m_systemTheme

\* initialize(): the fields are read from the system, no override is set
InitTheme ==
    /\ component = "theme"
    /\ FilterIdle
    /\ platform \in SystemThemeStates
    /\ windowIds = <<>>
    /\ wmWindowIds = <<>>
    /\ qtData = [id \in HWNDs |-> NullPtr]
    /\ winData = {}
    /\ hooks = {}
    /\ framelessHint = {}
    /\ managerPrivate =
          [m_systemTheme |-> platform.systemTheme, m_overrideTheme |-> "nullopt",
           m_accentColor |-> platform.accentColor,
           m_colorizationArea |-> platform.colorizationArea]
    /\ threads = [t \in Threads |-> [pc |-> "idle", fn |-> "none", id |-> NULL, settings |-> NullPtr,
                                    found |-> FALSE, ret |-> "none"]]
    /\ mutexes = [wm |-> NULL, qt |-> NULL]
    /\ pureQt = FALSE
    /\ HitTestIdle

\* setOverrideTheme(theme); htIn keeps the argument of the latest call
SetOverrideTheme(theme) ==
    /\ component = "theme"
    /\ htIn' = [theme |-> theme]
    /\ IF systemTheme(managerPrivate) = theme
       THEN /\ managerPrivate' = managerPrivate
            /\ trace' = <<>>
            /\ lastOp' = Op("setOverrideTheme", NULL, [theme |-> theme], "", FALSE)
       ELSE /\ managerPrivate' = [managerPrivate EXCEPT !.m_overrideTheme =
                                     IF theme = "Unknown" THEN "nullopt" ELSE theme]
            /\ trace' = <<Event("systemThemeChanged", NULL, "", FALSE)>>
            /\ lastOp' = Op("setOverrideTheme", NULL, [theme |-> theme], "", TRUE)
    /\ UNCHANGED <<component, m_framelessWindows, instance, userData, style, platform, windowIds, wmWindowIds, qtData, winData, hooks, framelessHint, pureQt, threads, mutexes, htOut>>

\* the user changes the theme, the accent colour or the colorization area
SystemThemeChange(p) ==
    /\ component = "theme"
    /\ p # platform
    /\ platform' = p
    /\ trace' = <<>>
    /\ lastOp' = Op("systemThemeChange", NULL, NullPtr, "", TRUE)
    /\ UNCHANGED <<component, m_framelessWindows, instance, userData, style, managerVars, hitTestVars>>

\* notifySystemThemeHasChangedOrNot(), run when the toolkit reports a theme
\* or colour-scheme change
NotifySystemThemeHasChangedOrNot ==
    /\ component = "theme"
    /\ LET notify == \/ managerPrivate.m_systemTheme # platform.systemTheme
                     \/ managerPrivate.m_accentColor # platform.accentColor
                     \/ managerPrivate.m_colorizationArea # platform.colorizationArea
       IN /\ managerPrivate' = [managerPrivate EXCEPT
                                   !.m_systemTheme = platform.systemTheme,
                                   !.m_accentColor = platform.accentColor,
                                   !.m_colorizationArea = platform.colorizationArea]
          /\ trace' = IF notify /\ ~isThemeOverrided(managerPrivate)
                      THEN <<Event("systemThemeChanged", NULL, "", FALSE)>>
                      ELSE <<>>
          /\ lastOp' = Op("notifySystemThemeHasChangedOrNot", NULL, NullPtr, "", notify)
    /\ UNCHANGED <<component, m_framelessWindows, instance, userData, style, platform, windowIds, wmWindowIds, qtData, winData, hooks, framelessHint, pureQt, threads, mutexes, hitTestVars>>

NextTheme ==
    \/ \E t \in Themes : SetOverrideTheme(t)
    \/ \E p \in SystemThemeStates : SystemThemeChange(p)
    \/ NotifySystemThemeHasChangedOrNot

SpecTheme == InitTheme /\ [][NextTheme]_vars

\* C38 as stated: while the latest setOverrideTheme call was made with a
\* theme other than Unknown, systemTheme() returns that theme, and a
\* notification of a system change emits no systemThemeChanged.
C38_OverrideHoldsUntilNextCall ==
    (component = "theme" /\ htIn # NullPtr /\ htIn.theme # "Unknown") =>
        /\ systemTheme(managerPrivate) = htIn.theme
        /\ lastOp.op = "notifySystemThemeHasChangedOrNot" => trace = <<>>

\* C39 as stated: a setOverrideTheme call emits systemThemeChanged only when
\* systemTheme() after the call differs from systemTheme() before it.
C39_SignalOnlyOnEffectiveChange ==
    [][(component = "theme" /\ lastOp'.op = "setOverrideTheme" /\ trace' # <<>>) =>
            systemTheme(managerPrivate') # systemTheme(managerPrivate)]_vars

====
